---- MODULE Spec2Model ----
(***************************************************************************)
(* A model of the memory layer of cpp-utils / light-std / lstd:            *)
(*   - the header codec and the front end (lstd/memory/allocator.{h,cpp}), *)
(*   - the debug tracker (a doubly-linked list under DEBUG_Mutex),         *)
(*   - the pool allocator (cpp-utils gu/memory/pool.cpp).                  *)
(* Each part has its own specification; the variables of the other parts   *)
(* stay at their idle value.                                               *)
(***************************************************************************)
EXTENDS Integers, Sequences, FiniteSets, TLC

VARIABLES
    debug,  \* TRUE: a DEBUG_MEMORY build (guards, tracker, assertions); FALSE: Dist
    lay,    \* header codec: one general_allocate / general_free of one block
    pool,   \* the Pool struct
    praw,   \* every raw block the pool's BlockAllocator handed out: addr, size, frees
    pgiven, \* the regions get() returned since the last reset
    pmem,   \* the bytes of the memory the pool's blocks live in
    pret,   \* the last __pool_allocator / release call and what it returned
    thr,    \* concurrent front end: each thread's position and locals
    trk,    \* concurrent front end: DEBUG_Head, the headers, DEBUG_Mutex, the live set
    fa,     \* front end: the allocator behind it and the raw blocks it handed out
    fhdr,   \* front end: the allocation headers, by header address
    fmem,   \* front end: the bytes outside the headers that are not 0, by address
    fe,     \* front end: DEBUG_Head, AllocationCount, the pointers the caller holds
    fop,    \* front end: the last call, the allocator calls it made, what it returned
    ta,     \* temporary allocator: the pages, the storages ever allocated, the last call
    dh,     \* default allocator: MallocInitted, the heap, each thread's position
    pc,     \* pool under repeated reset + get cycles: the script, the New calls per cycle
    hp,     \* a heap allocator behind free_all: its kind, its live blocks, the last call
    lk,     \* leak report: the tracker's headers, AllocationCount, the last report
    cx      \* the implicit context: each thread's default allocator and position

poolVars == <<pool, praw, pgiven, pmem, pret>>
thrVars == <<thr, trk>>
frontVars == <<fa, fhdr, fmem, fe, fop>>
moreVars == <<ta, dh, cx, pc, hp, lk>>
outsideLay == <<debug, poolVars, thrVars, frontVars, moreVars>>
outsidePool == <<debug, lay, thrVars, frontVars, moreVars>>
vars == <<debug, lay, poolVars, thrVars, frontVars, moreVars>>

(***************************************************************************)
(* Machine arithmetic                                                      *)
(***************************************************************************)
Min(a, b) == IF a < b THEN a ELSE b
Max(a, b) == IF a < b THEN b ELSE a

\* x & y on non-negative integers
RECURSIVE BitAnd(_, _)
BitAnd(x, y) ==
    IF x = 0 \/ y = 0 THEN 0
    ELSE (x % 2) * (y % 2) + 2 * BitAnd(x \div 2, y \div 2)

\* x & -a: in two's complement -a = ~(a - 1), so the bits of a - 1 are cleared
AndNeg(x, a) == x - BitAnd(x, a - 1)

U16 == 65536
ToU16(x) == x % U16

is_pow_of_2(x) == x > 0 /\ BitAnd(x, x - 1) = 0

(***************************************************************************)
(* Program constants                                                       *)
(***************************************************************************)
POINTER_SIZE == 8
NO_MANS_LAND_SIZE == 4
NO_MANS_LAND_FILL == 253
DEAD_LAND_FILL == 221
CLEAN_LAND_FILL == 205

\* sizeof(allocation_header) on a 64-bit target: 11 pointers/s64 + 2 u16 + bool +
\* char[4], rounded up to 8 in a DEBUG_MEMORY build; 4 pointers/s64 + 2 u16
\* rounded up to 8 otherwise.
DebugHeaderSize == 104
DistHeaderSize == 40
HeaderSize(dbg) == IF dbg THEN DebugHeaderSize ELSE DistHeaderSize

\* Context.AllocAlignment, the ambient default alignment
ContextAllocAlignment == POINTER_SIZE

\* The largest power of two the header's u16 Alignment field can hold
MaxHeaderAlignment == 32768

(***************************************************************************)
(* Header codec (allocator.h)                                              *)
(***************************************************************************)
\* mutant: the misalignment of ptr instead of the distance to the next boundary
calculate_padding_for_pointer_misalignment(ptr, alignment) ==
    ToU16(BitAnd(ptr, alignment - 1))

calculate_padding_for_pointer(ptr, alignment) ==
    ToU16(AndNeg(ptr + (alignment - 1), alignment) - ptr)

\* the same without the round-up of a header remainder that is not a multiple
calculate_padding_for_pointer_with_header_floor(ptr, alignment, headerSize) ==
    LET padding == calculate_padding_for_pointer(ptr, alignment)
        rest == headerSize - padding
    IN  IF padding < headerSize
        THEN ToU16(padding + alignment * (rest \div alignment))
        ELSE padding

calculate_padding_for_pointer_with_header(ptr, alignment, headerSize) ==
    LET padding == calculate_padding_for_pointer(ptr, alignment)
        rest == headerSize - padding
    IN  IF padding < headerSize
        THEN IF rest % alignment # 0
             THEN ToU16(padding + alignment * (1 + (rest \div alignment)))
             ELSE ToU16(padding + alignment * (rest \div alignment))
        ELSE padding

\* encode_header: where the header and the user pointer land for raw block p.
\* alignmentPadding is a u32: when padding < sizeof(allocation_header) the
\* subtraction wraps and the header lands 2^32 bytes further on; hi counts
\* those 2^32 units, header and user are the address minus hi * 2^32.
encode_header(p, userSize, align, dbg) ==
    LET padding == calculate_padding_for_pointer_with_header(p, align, HeaderSize(dbg))
        wrap == padding < HeaderSize(dbg)
        header == p + padding - HeaderSize(dbg)
    IN  [ padding |-> padding,
          hi |-> IF wrap THEN 1 ELSE 0,
          header |-> header,
          user |-> header + HeaderSize(dbg),
          Size |-> userSize,
          Alignment |-> ToU16(align),
          AlignmentPadding |-> ToU16(padding - HeaderSize(dbg)),
          aligned |-> AndNeg(header + HeaderSize(dbg), align) = header + HeaderSize(dbg) ]

(***************************************************************************)
(* general_allocate / general_free on one raw block (allocator.cpp)        *)
(***************************************************************************)
\* alignment = 0 takes the context's alignment; then it is raised to POINTER_SIZE
EffectiveAlignment(alignment) ==
    LET a == IF alignment = 0 THEN ContextAllocAlignment ELSE alignment
    IN  IF a < POINTER_SIZE THEN POINTER_SIZE ELSE a

\* mutant: the request without the alignment slack
Required_no_slack(userSize, alignment, dbg) ==
    userSize + HeaderSize(dbg) + (HeaderSize(dbg) % alignment)
        + (IF dbg THEN NO_MANS_LAND_SIZE ELSE 0)

\* the bytes general_allocate asks the allocator for
Required(userSize, alignment, dbg) ==
    userSize + alignment + HeaderSize(dbg) + (HeaderSize(dbg) % alignment)
        + (IF dbg THEN NO_MANS_LAND_SIZE ELSE 0)

\* verify_header_unlocked on a header just written: the asserts on its fields
HeaderFieldsVerify(h) ==
    /\ h.Alignment # 0
    /\ h.Alignment >= POINTER_SIZE
    /\ is_pow_of_2(h.Alignment)

\* the bytes general_free / general_reallocate recompute from the header
HeaderExtra(h, dbg) ==
    h.Alignment + HeaderSize(dbg) + (HeaderSize(dbg) % h.Alignment)
BlockSizeFromHeader(h, dbg) ==
    h.Size + HeaderExtra(h, dbg) + (IF dbg THEN NO_MANS_LAND_SIZE ELSE 0)
\* mutant: the padding subtracted from the user pointer
BlockFromHeader_from_user(h) == h.user - h.AlignmentPadding

\* the raw block general_free / general_reallocate recover
BlockFromHeader(h) == h.header - h.AlignmentPadding

(***************************************************************************)
(* Specification SpecLayout: pure layout of one allocation                 *)
(***************************************************************************)
LayBase == 131072
MaxBlockOffset == 12
MaxLaySize == 2
LayBlocks == {LayBase + o : o \in 0..MaxBlockOffset} \cup {LayBase - o : o \in 1..MaxBlockOffset}
LaySizes == 0..MaxLaySize
LayAlignments == {0, 1, 4, 8, 16, 64, 4096, 32768, 65536, 131072, 24}

PoolIdle ==
    /\ pool = [st |-> "off"] /\ praw = <<>> /\ pgiven = <<>> /\ pmem = <<>>
    /\ pret = [mode |-> "off"]

ThreadsIdle == thr = <<>> /\ trk = [status |-> "off"]

FrontIdle ==
    /\ fa = [kind |-> "off"] /\ fhdr = <<>> /\ fmem = <<>>
    /\ fe = [status |-> "off"] /\ fop = [op |-> "off"]

TempIdle == ta = [st |-> "off"]
DefaultIdle == dh = [st |-> "off"]
ContextIdle == cx = [st |-> "off"]
CyclesIdle == pc = [st |-> "off"]
HeapIdle == hp = [st |-> "off"]
LeaksIdle == lk = [st |-> "off"]
MoreIdle == TempIdle /\ DefaultIdle /\ ContextIdle /\ CyclesIdle /\ HeapIdle /\ LeaksIdle

LayInit ==
    /\ debug \in BOOLEAN
    /\ PoolIdle /\ ThreadsIdle /\ FrontIdle /\ MoreIdle
    /\ lay \in [st : {"input"}, block : LayBlocks, userSize : LaySizes, alignment : LayAlignments]

LayIdle == lay = [st |-> "off"]

\* general_allocate with ALLOCATE having returned lay.block
LayAllocate ==
    /\ lay.st = "input"
    /\ LET a == EffectiveAlignment(lay.alignment)
           e == encode_header(lay.block, lay.userSize, a, debug)
           base == [ block |-> lay.block, userSize |-> lay.userSize,
                     param |-> lay.alignment, alignment |-> a,
                     required |-> Required(lay.userSize, a, debug), h |-> e ]
           checked == IF debug /\ ~is_pow_of_2(a) THEN "assert"   \* assert(is_pow_of_2(alignment))
                      ELSE IF debug /\ ~e.aligned THEN "assert"   \* "Pointer wasn't properly aligned."
                      ELSE IF debug /\ ~HeaderFieldsVerify(e) THEN "assert"  \* verify_heap()
                      ELSE "allocated"
       IN  \/ lay' = [st |-> checked] @@ base
           \/ \* the header is written 2^32 bytes past the block: a wild write,
              \* which traps when that page is not mapped
              /\ e.hi # 0
              /\ (debug => is_pow_of_2(a))
              /\ lay' = [st |-> "fault"] @@ base
    /\ UNCHANGED outsideLay

\* general_free of the pointer general_allocate returned
LayFree ==
    /\ lay.st = "allocated"
    /\ IF debug /\ ~HeaderFieldsVerify(lay.h)
       THEN lay' = [lay EXCEPT !.st = "free_assert"]
       ELSE IF lay.h.Alignment = 0
       THEN lay' = [lay EXCEPT !.st = "free_fault"]    \* sizeof(header) % 0
       ELSE lay' = [st |-> "freed", freeHi |-> lay.h.hi,
                    freeBlock |-> BlockFromHeader(lay.h),
                    freeSize |-> BlockSizeFromHeader(lay.h, debug)] @@ lay
    /\ UNCHANGED outsideLay

LayNext == LayAllocate \/ LayFree

SpecLayout == LayInit /\ [][LayNext]_vars

(***************************************************************************)
(* Claims about the layout                                                 *)
(***************************************************************************)
LayReturned == lay.st \in {"allocated", "freed", "free_assert", "free_fault"}
LayCalled == lay.st \notin {"off", "input"}
\* the user pointer is header.user + hi * 2^32, and every alignment divides 2^32
LayAligned == lay.h.user % lay.alignment = 0 /\ lay.h.Size = lay.userSize
LayInClaimDomain == lay.param >= POINTER_SIZE /\ is_pow_of_2(lay.param)

\* C1 as stated: for every size and every power-of-two alignment >= pointer size
\* that a u32 carries, general_allocate returns p with p mod alignment = 0 and
\* the header before p has Size = size.
C1_EveryU32Alignment ==
    (LayCalled /\ LayInClaimDomain) => (LayReturned /\ LayAligned)

\* C1 amended: the same for the power-of-two alignments from pointer size up to
\* 32768, the largest the 16-bit header fields hold.
C1_AlignedUpToMaxHeaderAlignment ==
    (LayCalled /\ LayInClaimDomain /\ lay.param <= MaxHeaderAlignment)
        => (LayReturned /\ LayAligned)

C1_Witness ==
    /\ lay.st = "allocated" /\ lay.param = MaxHeaderAlignment
    /\ lay.userSize = MaxLaySize /\ lay.block % lay.param # 0 /\ debug

LayFieldsExact ==
    /\ lay.h.hi = 0
    /\ lay.h.Alignment = lay.alignment
    /\ lay.h.AlignmentPadding = lay.h.header - lay.block
    /\ BlockFromHeader(lay.h) = lay.block
LayFreedRawBlock ==
    lay.st # "allocated" => (lay.st = "freed" /\ lay.freeHi = 0 /\ lay.freeBlock = lay.block)

\* C8 as stated: for every alignment general_allocate accepts and every raw block
\* address, header - AlignmentPadding is the address ALLOCATE returned, the u16
\* fields hold the untruncated alignment and padding, and general_free passes
\* the raw block address to FREE.
C8_FieldsNeverTruncated ==
    (LayReturned /\ is_pow_of_2(lay.alignment)) => (LayFieldsExact /\ LayFreedRawBlock)

\* C8 amended: the same for the alignments up to 32768.
C8_FieldsExactUpToMaxHeaderAlignment ==
    (LayReturned /\ is_pow_of_2(lay.alignment) /\ lay.alignment <= MaxHeaderAlignment)
        => (LayFieldsExact /\ LayFreedRawBlock)

C8_Witness ==
    /\ lay.st = "freed" /\ lay.alignment = MaxHeaderAlignment
    /\ lay.h.AlignmentPadding > 255 /\ lay.freeBlock = lay.block

\* the regions of one allocation, in address order: padding, header, user, guard
LayGuard == IF debug THEN NO_MANS_LAND_SIZE ELSE 0
LayRegionsInside ==
    /\ lay.h.hi = 0
    /\ lay.block <= lay.h.header                         \* padding [block, header)
    /\ lay.h.header + HeaderSize(debug) = lay.h.user     \* header [header, user)
    /\ lay.h.user + lay.userSize + LayGuard <= lay.block + lay.required

\* C9 as stated: for every raw block address, size and accepted alignment the
\* padding, the header, the user region and the trailing guard are pairwise
\* disjoint and lie inside the `required` bytes requested from the allocator.
C9_RegionsAlwaysInside ==
    (LayReturned /\ is_pow_of_2(lay.alignment)) => LayRegionsInside

\* C9 amended: the same for the alignments up to 32768.
C9_RegionsInsideUpToMaxHeaderAlignment ==
    (LayReturned /\ is_pow_of_2(lay.alignment) /\ lay.alignment <= MaxHeaderAlignment)
        => LayRegionsInside

C9_Witness ==
    /\ lay.st = "allocated" /\ debug /\ lay.alignment = 64
    /\ lay.h.header > lay.block /\ lay.userSize > 0

\* the header sizes the padding is asked for: none, one byte, the two headers
\* of the build kinds, and the first two sizes 16 bits do not leave room for
PadHeaderSizes == {0, 1, HeaderSize(FALSE), HeaderSize(TRUE), MaxHeaderAlignment, U16}
\* the smallest k >= headerSize with ptr + k a multiple of alignment
SmallestPadding(ptr, alignment, headerSize) ==
    headerSize + ((alignment - ((ptr + headerSize) % alignment)) % alignment)
PaddingIsSmallest(headerSize) ==
    /\ calculate_padding_for_pointer_with_header(lay.block, lay.alignment, headerSize)
           = SmallestPadding(lay.block, lay.alignment, headerSize)
    /\ calculate_padding_for_pointer(lay.block, lay.alignment)
           = SmallestPadding(lay.block, lay.alignment, 0)

\* C24 as stated: for every pointer, every power-of-two alignment and every
\* header size, calculate_padding_for_pointer_with_header returns the smallest
\* k >= headerSize with ptr + k a multiple of alignment, and
\* calculate_padding_for_pointer the smallest such k >= 0.
C24_PaddingSmallestForEveryInput ==
    (LayCalled /\ is_pow_of_2(lay.alignment)) =>
        \A headerSize \in PadHeaderSizes : PaddingIsSmallest(headerSize)

\* C24 amended: the same for the alignments and the header sizes up to 32768,
\* whose smallest offset fits the u16 the two functions return.
C24_PaddingSmallestUpToMaxHeaderAlignment ==
    (LayCalled /\ is_pow_of_2(lay.alignment) /\ lay.alignment <= MaxHeaderAlignment) =>
        \A headerSize \in {h \in PadHeaderSizes : h <= MaxHeaderAlignment} :
            PaddingIsSmallest(headerSize)

\* an allocation whose block lies less than a header before a 32768 boundary,
\* so the header does not fit the plain padding and a whole alignment is added
C24_Witness ==
    /\ lay.st = "allocated" /\ lay.alignment = MaxHeaderAlignment
    /\ calculate_padding_for_pointer(lay.block, lay.alignment) \in 1..(HeaderSize(debug) - 1)
    /\ lay.h.padding = SmallestPadding(lay.block, lay.alignment, HeaderSize(debug))
    /\ lay.h.padding > lay.alignment

(***************************************************************************)
(* The pool allocator (cpp-utils gu/memory/pool.cpp, memory.cpp)           *)
(***************************************************************************)
PoolAlignment == 8
InitBlockSize == 2 * PoolAlignment   \* Pool::BlockSize as the owner set it
PoolSlot == InitBlockSize            \* the backing allocator's arena: PoolSlots slots
PoolHeapBase == PoolSlot             \* of PoolSlot bytes from PoolHeapBase on
PoolSlots == 4
MaxRawBlocks == 3         \* raw blocks the backing allocator hands out in a run
MaxGets == 2              \* get() calls between two resets
MaxGetWords == 3          \* get() sizes: up to MaxGetWords * PoolAlignment
MaxFrees == 2             \* frees counted per raw block: 2 stands for two or more

PoolMemTop == PoolHeapBase + PoolSlot * PoolSlots
PoolAddrs == {PoolHeapBase + PoolSlot * k : k \in 0..(PoolSlots - 1)}
GetSizes == {PoolAlignment * w : w \in 0..MaxGetWords} \cup {1}

\* the backing allocator (New / Delete of raw blocks)
RawLive(raw) == {i \in 1..Len(raw) : raw[i].frees = 0}
RawFits(raw, addr, size) ==
    /\ addr \in PoolAddrs
    /\ addr + size <= PoolMemTop
    /\ \A i \in RawLive(raw) : addr + size <= raw[i].addr \/ raw[i].addr + raw[i].size <= addr
RawNew(raw, addr, size) == Append(raw, [addr |-> addr, size |-> size, frees |-> 0])
\* Delete(addr): the latest block handed out at addr is freed (once more)
RawDelete(raw, addr) ==
    LET at == {i \in 1..Len(raw) : raw[i].addr = addr}
    IN  IF at = {} THEN raw
        ELSE LET i == CHOOSE j \in at : \A k \in at : k <= j
             IN  [raw EXCEPT ![i].frees = Min(@ + 1, MaxFrees)]
RECURSIVE RawDeleteAll(_, _)
RawDeleteAll(raw, addrs) ==
    IF addrs = <<>> THEN raw ELSE RawDeleteAll(RawDelete(raw, Head(addrs)), Tail(addrs))

\* CopyMemory(dest, src, num): u32-wise when everything is 4-aligned, else bytewise
\* pmem holds the bytes that are not 0, by address
PoolByte(m, a) == IF a \in DOMAIN m THEN m[a] ELSE 0
PoolStore(m, lo, n, val) ==
    LET keep == {a \in DOMAIN m : a < lo \/ a >= lo + n}
        set == {a \in lo..(lo + n - 1) : val[a] # 0}
    IN  [a \in keep \cup set |-> IF a \in set THEN val[a] ELSE m[a]]
RECURSIVE CopyChunks(_, _, _, _, _, _)
CopyChunks(m, dest, src, num, c, i) ==
    IF i >= num THEN m
    ELSE LET from == [a \in (dest + i)..(dest + i + c - 1) |-> PoolByte(m, src + (a - dest))]
         IN  CopyChunks(PoolStore(m, dest + i, c, from), dest, src, num, c, i + c)
CopyMemory(m, dest, src, num) ==
    IF dest % 4 = 0 /\ src % 4 = 0 /\ num % 4 = 0
    THEN CopyChunks(m, dest, src, num, 4, 0)
    ELSE CopyChunks(m, dest, src, num, 1, 0)
InPoolMem(addr, n) == addr >= 0 /\ addr + n <= PoolMemTop

\* resize_blocks that sets the size and leaves the blocks where they are
resize_blocks_keeps_current(pl, blockSize) == [pl EXCEPT !.BlockSize = blockSize]

resize_blocks(pl, blockSize) ==
    [pl EXCEPT !.BlockSize = blockSize,
               !.ObsoletedMemblocks =
                   (@ \o (IF pl.CurrentMemblock # 0 THEN <<pl.CurrentMemblock>> ELSE <<>>))
                      \o pl.UsedMemblocks,
               !.CurrentMemblock = 0,
               !.UsedMemblocks = <<>>]

\* cycle_new_block that takes the last Unused block and leaves it on the list
cycle_new_block_keeps_unused(pl, newBlock) ==
    LET n == Len(pl.UnusedMemblocks)
        nb == IF n > 0 THEN pl.UnusedMemblocks[n] ELSE newBlock
    IN  [pl EXCEPT !.UsedMemblocks =
                       IF pl.CurrentMemblock # 0 THEN Append(@, pl.CurrentMemblock) ELSE @,
                   !.BytesLeft = pl.BlockSize,
                   !.CurrentPosition = nb,
                   !.CurrentMemblock = nb]

\* newBlock is what New<u8>(pool.BlockSize) returns when it is called
cycle_new_block(pl, newBlock) ==
    LET n == Len(pl.UnusedMemblocks)
        nb == IF n > 0 THEN pl.UnusedMemblocks[n] ELSE newBlock
    IN  [pl EXCEPT !.UsedMemblocks =
                       IF pl.CurrentMemblock # 0 THEN Append(@, pl.CurrentMemblock) ELSE @,
                   !.UnusedMemblocks = IF n > 0 THEN SubSeq(@, 1, n - 1) ELSE @,
                   !.BytesLeft = pl.BlockSize,
                   !.CurrentPosition = nb,
                   !.CurrentMemblock = nb]

RECURSIVE GrownBlockSize(_, _)
GrownBlockSize(bs, size) == IF bs < size THEN GrownBlockSize(bs * 2, size) ELSE bs

ensure_memory_exists(pl, size, newBlock) ==
    LET bs == GrownBlockSize(pl.BlockSize, size)
    IN  cycle_new_block(IF bs > pl.BlockSize THEN resize_blocks(pl, bs) ELSE pl, newBlock)

PaddedSize(size) == size + (PoolAlignment - (size % PoolAlignment))

\* get(pool, size): the pool afterwards and the pointer returned
get(pl, size, newBlock) ==
    LET sz == PaddedSize(size)
        pl1 == IF pl.BytesLeft < sz THEN ensure_memory_exists(pl, sz, newBlock) ELSE pl
    IN  [ pool |-> [pl1 EXCEPT !.CurrentPosition = @ + sz, !.BytesLeft = @ - sz],
          ret |-> pl1.CurrentPosition ]
\* get calls New exactly when it cycles a block and no Unused block is left
GetCallsNew(pl, size) == pl.BytesLeft < PaddedSize(size) /\ pl.UnusedMemblocks = <<>>
GetNewSize(pl, size) == GrownBlockSize(pl.BlockSize, PaddedSize(size))

\* the same with ObsoletedMemblocks.Count left as it is
reset_collect_keeps_obsolete(pl) ==
    [pl EXCEPT !.UnusedMemblocks =
                   (@ \o (IF pl.CurrentMemblock # 0 THEN <<pl.CurrentMemblock>> ELSE <<>>))
                      \o pl.UsedMemblocks,
               !.CurrentMemblock = 0,
               !.UsedMemblocks = <<>>]

\* reset(pool) up to the Delete of the Obsolete blocks
reset_collect(pl) ==
    [pl EXCEPT !.UnusedMemblocks =
                   (@ \o (IF pl.CurrentMemblock # 0 THEN <<pl.CurrentMemblock>> ELSE <<>>))
                      \o pl.UsedMemblocks,
               !.CurrentMemblock = 0,
               !.UsedMemblocks = <<>>,
               !.ObsoletedMemblocks = <<>>]
reset(pl, newBlock) == cycle_new_block(reset_collect(pl), newBlock)
ResetCallsNew(pl) == reset_collect(pl).UnusedMemblocks = <<>>

PoolInit ==
    /\ debug = FALSE
    /\ lay = [st |-> "off"]
    /\ ThreadsIdle /\ FrontIdle /\ MoreIdle
    /\ pool = [ BlockSize |-> InitBlockSize, UnusedMemblocks |-> <<>>, UsedMemblocks |-> <<>>,
                ObsoletedMemblocks |-> <<>>, CurrentMemblock |-> 0, CurrentPosition |-> 0,
                BytesLeft |-> 0 ]
    /\ praw = <<>>
    /\ pgiven = <<>>
    /\ pmem = <<>>
    /\ pret = [mode |-> "none", fault |-> FALSE]

PoolRunning == pret.mode # "off" /\ ~pret.fault

\* the block New returns: a free place of the arena when New is called, else unused
NewChoice(calls, raw, size, addr) ==
    IF calls THEN Len(raw) < MaxRawBlocks /\ RawFits(raw, addr, size) ELSE addr = 0

\* __pool_allocator(ALLOCATE, size) = get(pool, size)
PoolALLOCATE ==
    /\ PoolRunning /\ Len(pgiven) < MaxGets
    /\ \E size \in GetSizes, addr \in PoolAddrs \cup {0} :
         LET calls == GetCallsNew(pool, size)
             g == get(pool, size, addr)
         IN  /\ NewChoice(calls, praw, GetNewSize(pool, size), addr)
             /\ pool' = g.pool
             /\ praw' = IF calls THEN RawNew(praw, addr, GetNewSize(pool, size)) ELSE praw
             /\ pgiven' = Append(pgiven, [ret |-> g.ret, size |-> size])
             /\ pret' = [mode |-> "ALLOCATE", size |-> size, result |-> g.ret, fault |-> FALSE]
    /\ UNCHANGED <<outsidePool, pmem>>

\* __pool_allocator(RESIZE, size, oldMemory, oldSize): get + CopyMemory
PoolRESIZE ==
    /\ PoolRunning /\ Len(pgiven) < MaxGets
    /\ \E size \in GetSizes, old \in 1..Len(pgiven), addr \in PoolAddrs \cup {0} :
         LET calls == GetCallsNew(pool, size)
             g == get(pool, size, addr)
             oldMemory == pgiven[old].ret
             oldSize == pgiven[old].size
             mapped == InPoolMem(oldMemory, oldSize) /\ InPoolMem(g.ret, oldSize)
         IN  /\ NewChoice(calls, praw, GetNewSize(pool, size), addr)
             /\ pool' = g.pool
             /\ praw' = IF calls THEN RawNew(praw, addr, GetNewSize(pool, size)) ELSE praw
             /\ pgiven' = Append(pgiven, [ret |-> g.ret, size |-> size])
             /\ pmem' = IF mapped THEN CopyMemory(pmem, oldMemory, g.ret, oldSize) ELSE pmem
             /\ pret' = [mode |-> "RESIZE", size |-> size, oldMemory |-> oldMemory,
                         oldSize |-> oldSize, result |-> g.ret, fault |-> ~mapped]
    /\ UNCHANGED outsidePool

\* __pool_allocator(FREE, oldMemory): "This allocator only supports FREE_ALL"
PoolFREE ==
    /\ PoolRunning
    /\ pret.mode # "FREE"
    /\ \E old \in 1..Len(pgiven) :
         pret' = [mode |-> "FREE", oldMemory |-> pgiven[old].ret, result |-> 0, fault |-> FALSE]
    /\ UNCHANGED <<outsidePool, pool, praw, pgiven, pmem>>

\* __pool_allocator(FREE_ALL) = reset(pool)
PoolFREE_ALL ==
    /\ PoolRunning
    /\ \E addr \in PoolAddrs \cup {0} :
         LET calls == ResetCallsNew(pool)
             freed == RawDeleteAll(praw, pool.ObsoletedMemblocks)
         IN  /\ NewChoice(calls, freed, pool.BlockSize, addr)
             /\ pool' = reset(pool, addr)
             /\ praw' = IF calls THEN RawNew(freed, addr, pool.BlockSize) ELSE freed
    /\ pgiven' = <<>>
    /\ pret' = [mode |-> "FREE_ALL", result |-> 0, fault |-> FALSE]
    /\ UNCHANGED <<outsidePool, pmem>>

\* release(pool): reset, then Delete every Unused block
PoolRelease ==
    /\ PoolRunning
    /\ \E addr \in PoolAddrs \cup {0} :
         LET calls == ResetCallsNew(pool)
             freed == RawDeleteAll(praw, pool.ObsoletedMemblocks)
             afterReset == IF calls THEN RawNew(freed, addr, pool.BlockSize) ELSE freed
         IN  /\ NewChoice(calls, freed, pool.BlockSize, addr)
             /\ pool' = reset(pool, addr)
             /\ praw' = RawDeleteAll(afterReset, reset(pool, addr).UnusedMemblocks)
    /\ pgiven' = <<>>
    /\ pret' = [mode |-> "release", result |-> 0, fault |-> FALSE]
    /\ UNCHANGED <<outsidePool, pmem>>

\* the caller stores its data into the region it just got: byte i of it
\* becomes i + 1
PoolWrite ==
    /\ PoolRunning
    /\ pret.mode \in {"ALLOCATE", "RESIZE"}
    /\ LET p == pret.result
           size == pret.size
       IN  /\ size > 0 /\ InPoolMem(p, size)
           /\ pmem' = PoolStore(pmem, p, size, [a \in p..(p + size - 1) |-> (a - p) + 1])
    /\ pret' = [mode |-> "write", result |-> pret.result, fault |-> FALSE]
    /\ UNCHANGED <<outsidePool, pool, praw, pgiven>>

PoolNext ==
    \/ PoolALLOCATE \/ PoolRESIZE \/ PoolFREE \/ PoolFREE_ALL \/ PoolRelease

SpecPool == PoolInit /\ [][PoolNext]_vars

\* the pool between two resets, with the caller's data in the regions
PoolBytesNext == PoolALLOCATE \/ PoolRESIZE \/ PoolWrite

SpecPoolBytes == PoolInit /\ [][PoolBytesNext]_vars

\* the blocks the pool holds, and whether the backing allocator still has them
SeqRange(q) == {q[i] : i \in 1..Len(q)}
PoolHeld ==
    SeqRange(pool.UnusedMemblocks) \cup SeqRange(pool.UsedMemblocks)
        \cup SeqRange(pool.ObsoletedMemblocks) \cup ({pool.CurrentMemblock} \ {0})
PoolHoldsNoFreedBlock ==
    \A b \in PoolHeld : \E i \in RawLive(praw) : praw[i].addr = b

\* C7: between two resets the regions [ret, ret + size) returned by get are
\* pairwise disjoint, also when get cycles blocks and grows the block size
\* (stated for a pool that was not released: every block it holds is live).
C7_GetRegionsDisjoint ==
    PoolHoldsNoFreedBlock =>
        \A i, j \in 1..Len(pgiven) :
            i < j => \/ pgiven[i].size = 0
                     \/ pgiven[j].size = 0
                     \/ pgiven[i].ret + pgiven[i].size <= pgiven[j].ret
                     \/ pgiven[j].ret + pgiven[j].size <= pgiven[i].ret

\* the size the backing allocator gave the live raw block at addr (0: none there)
RawSizeAt(raw, addr) ==
    LET at == {i \in RawLive(raw) : raw[i].addr = addr}
    IN  IF at = {} THEN 0 ELSE raw[CHOOSE i \in at : TRUE].size

\* C26: when get() grows the nominal block size, every block the pool holds
\* (Current, Used and Unused) is moved to Obsolete and Used is cleared, so the
\* block that becomes Current is not smaller than the nominal block size.
C26_GrowthObsoletesEveryBlock ==
    [][(PoolHoldsNoFreedBlock /\ pool'.BlockSize > pool.BlockSize) =>
           /\ pool'.UsedMemblocks = <<>>
           /\ pool'.UnusedMemblocks = <<>>
           /\ PoolHeld \subseteq SeqRange(pool'.ObsoletedMemblocks)
           /\ RawSizeAt(praw', pool'.CurrentMemblock) >= pool'.BlockSize]_vars

\* C27: in every state of a pool that was not released, BytesLeft is at most
\* the bytes that remain past CurrentPosition in the Current block as the
\* backing allocator made it, and every region get returned since the last
\* reset lies wholly inside one raw block.
C27_BytesLeftInsideCurrentBlock ==
    (PoolHoldsNoFreedBlock /\ pool.CurrentMemblock # 0) =>
        /\ pool.CurrentPosition + pool.BytesLeft
               <= pool.CurrentMemblock + RawSizeAt(praw, pool.CurrentMemblock)
        /\ \A i \in 1..Len(pgiven) :
              \E r \in RawLive(praw) :
                  /\ praw[r].addr <= pgiven[i].ret
                  /\ pgiven[i].ret + pgiven[i].size <= praw[r].addr + praw[r].size

\* address a lies in a raw block the backing allocator got back, and in no
\* raw block it has handed out since
InFreedBlock(raw, a) ==
    /\ \E i \in 1..Len(raw) :
          raw[i].frees > 0 /\ raw[i].addr <= a /\ a < raw[i].addr + raw[i].size
    /\ ~\E j \in RawLive(raw) : raw[j].addr <= a /\ a < raw[j].addr + raw[j].size

\* C29: over any sequence of get / reset / release calls, also after a release,
\* no raw block is passed to the backing allocator's free twice, and get never
\* returns memory from a block that has been freed.
C29_NoDoubleFreeNoFreedMemory ==
    /\ \A i \in 1..Len(praw) : praw[i].frees <= 1
    /\ \A i \in 1..Len(pgiven) : ~InFreedBlock(praw, pgiven[i].ret)

\* the pool while nobody calls release on it
PoolLiveNext == PoolALLOCATE \/ PoolRESIZE \/ PoolFREE \/ PoolFREE_ALL
SpecPoolLive == PoolInit /\ [][PoolLiveNext]_vars

\* the blocks reset retains, in the order it appends them to Unused
PoolRetained ==
    (pool.UnusedMemblocks
        \o (IF pool.CurrentMemblock # 0 THEN <<pool.CurrentMemblock>> ELSE <<>>))
        \o pool.UsedMemblocks

\* C35: reset() of a pool that was not released moves the Current block and the
\* Used blocks to Unused, frees each Obsolete block exactly once and empties
\* Obsolete, then installs a Current block with BytesLeft = BlockSize: the last
\* Unused block, with no raw allocation, whenever there is one, else a new one.
C35_ResetRetainsAndRecycles ==
    [][pret'.mode = "FREE_ALL" =>
           /\ pool'.ObsoletedMemblocks = <<>> /\ pool'.UsedMemblocks = <<>>
           /\ pool'.BlockSize = pool.BlockSize
           /\ \A i \in 1..Len(praw) :
                 praw'[i].frees = IF praw[i].frees = 0
                                       /\ praw[i].addr \in SeqRange(pool.ObsoletedMemblocks)
                                    THEN 1 ELSE praw[i].frees
           /\ pool'.CurrentMemblock # 0
           /\ pool'.CurrentPosition = pool'.CurrentMemblock
           /\ pool'.BytesLeft = pool'.BlockSize
           /\ IF PoolRetained # <<>>
              THEN /\ pool'.CurrentMemblock = PoolRetained[Len(PoolRetained)]
                   /\ pool'.UnusedMemblocks = SubSeq(PoolRetained, 1, Len(PoolRetained) - 1)
                   /\ Len(praw') = Len(praw)
              ELSE /\ pool'.UnusedMemblocks = <<>>
                   /\ Len(praw') = Len(praw) + 1
                   /\ praw'[Len(praw')] = [addr |-> pool'.CurrentMemblock,
                                           size |-> pool.BlockSize, frees |-> 0]]_vars
\* a reset that freed an Obsolete block and took the Current block from Unused
C35_Witness ==
    /\ pret.mode = "FREE_ALL" /\ PoolHoldsNoFreedBlock
    /\ Len(praw) = 2 /\ praw[1].frees = 1 /\ praw[2].frees = 0
    /\ pool.CurrentMemblock = praw[2].addr /\ pool.BytesLeft = pool.BlockSize
    /\ pool.ObsoletedMemblocks = <<>>

\* C36: the pool's RESIZE returns a block whose first oldSize bytes are what
\* oldMemory held before the call, and leaves the bytes of oldMemory as they
\* were.
C36_ResizeCopiesOldToNew ==
    [][(pret'.mode = "RESIZE" /\ ~pret'.fault) =>
           \A k \in 0..(pret'.oldSize - 1) :
               /\ PoolByte(pmem', pret'.result + k) = PoolByte(pmem, pret'.oldMemory + k)
               /\ PoolByte(pmem', pret'.oldMemory + k) = PoolByte(pmem, pret'.oldMemory + k)]_vars

\* C10: a RESIZE call returns old_ptr or the must-move sentinel (null), never
\* another address, and allocates nothing; the pool returns must-move always.
C10_ResizeOldOrMustMove ==
    pret.mode = "RESIZE" => pret.result = 0

(***************************************************************************)
(* The debug tracker (lstd allocator.cpp: DEBUG_unlink_header,             *)
(* DEBUG_add_header, DEBUG_swap_header, verify_heap)                       *)
(* T is [Head, H]: DEBUG_Head and the headers by address; a header has     *)
(* DEBUG_Next, DEBUG_Previous and st: "valid" (encoded), "dead" (all       *)
(* DEAD_LAND_FILL), "clobbered" (freed, then written), "fresh" (unused).   *)
(***************************************************************************)
\* a pointer read out of memory that was filled with DEAD_LAND_FILL
DeadPtr == -1

Mapped(H, x) == x \in DOMAIN H

\* a store to one field of the header at x; a freed header stops being all 0xDD
HdrWrite(H, x, f, v) ==
    [H EXCEPT ![x] = [@ EXCEPT ![f] = v, !.st = IF @ = "dead" THEN "clobbered" ELSE @]]

\* DEBUG_unlink_header that leaves DEBUG_Next->DEBUG_Previous as it was
DEBUG_unlink_header_keeps_previous(T, header) ==
    IF header = 0 \/ T.Head = 0
    THEN [Head |-> T.Head, H |-> T.H, out |-> "assert"]
    ELSE LET nx == T.H[header].DEBUG_Next
             pv == T.H[header].DEBUG_Previous
             head1 == IF header = T.Head THEN nx ELSE T.Head
         IN  IF pv # 0 /\ ~Mapped(T.H, pv)
             THEN [Head |-> head1, H |-> T.H, out |-> "fault"]
             ELSE [Head |-> head1,
                   H |-> IF pv # 0 THEN HdrWrite(T.H, pv, "DEBUG_Next", nx) ELSE T.H,
                   out |-> "ok"]

DEBUG_unlink_header(T, header) ==
    IF header = 0 \/ T.Head = 0
    THEN [Head |-> T.Head, H |-> T.H, out |-> "assert"]
    ELSE LET nx == T.H[header].DEBUG_Next
             pv == T.H[header].DEBUG_Previous
             head1 == IF header = T.Head THEN nx ELSE T.Head
         IN  IF (nx # 0 /\ ~Mapped(T.H, nx)) \/ (pv # 0 /\ ~Mapped(T.H, pv))
             THEN [Head |-> head1, H |-> T.H, out |-> "fault"]
             ELSE LET H1 == IF nx # 0 THEN HdrWrite(T.H, nx, "DEBUG_Previous", pv) ELSE T.H
                      H2 == IF pv # 0 THEN HdrWrite(H1, pv, "DEBUG_Next", nx) ELSE H1
                  IN  [Head |-> head1, H |-> H2, out |-> "ok"]

\* DEBUG_add_header that leaves DEBUG_Head alone once the list is not empty
DEBUG_add_header_keeps_head(T, header) ==
    LET H1 == HdrWrite(T.H, header, "DEBUG_Next", T.Head)
    IN  IF T.Head = 0 THEN [Head |-> header, H |-> H1, out |-> "ok"]
        ELSE [Head |-> T.Head, H |-> H1, out |-> "ok"]

DEBUG_add_header(T, header) ==
    LET H1 == HdrWrite(T.H, header, "DEBUG_Next", T.Head)
    IN  IF T.Head = 0 THEN [Head |-> header, H |-> H1, out |-> "ok"]
        ELSE IF ~Mapped(T.H, T.Head) THEN [Head |-> T.Head, H |-> H1, out |-> "fault"]
        ELSE [Head |-> header, H |-> HdrWrite(H1, T.Head, "DEBUG_Previous", header),
              out |-> "ok"]

\* DEBUG_swap_header, first part: prev and next are read before the lock is taken
SwapRead(T, oldHeader) ==
    [prev |-> T.H[oldHeader].DEBUG_Previous, next |-> T.H[oldHeader].DEBUG_Next]

\* DEBUG_swap_header, second part: under the lock, with the prev and next read before
SwapLocked(T, rd, newHeader) ==
    IF (rd.prev # 0 /\ ~Mapped(T.H, rd.prev)) \/ (rd.next # 0 /\ ~Mapped(T.H, rd.next))
    THEN [Head |-> T.Head, H |-> T.H, out |-> "fault"]
    ELSE LET H1 == IF rd.prev # 0
                   THEN HdrWrite(HdrWrite(T.H, rd.prev, "DEBUG_Next", newHeader),
                                 newHeader, "DEBUG_Previous", rd.prev)
                   ELSE T.H
             head1 == IF rd.prev # 0 THEN T.Head ELSE newHeader
             H2 == IF rd.next # 0
                   THEN HdrWrite(HdrWrite(H1, rd.next, "DEBUG_Previous", newHeader),
                                 newHeader, "DEBUG_Next", rd.next)
                   ELSE H1
         IN  [Head |-> head1, H |-> H2, out |-> "ok"]

\* DEBUG_swap_header run by one thread with nothing in between
DEBUG_swap_header(T, oldHeader, newHeader) ==
    IF T.Head = 0 THEN [Head |-> T.Head, H |-> T.H, out |-> "assert"]
    ELSE SwapLocked(T, SwapRead(T, oldHeader), newHeader)

\* verify_heap: the walk from DEBUG_Head; bad holds the headers whose fields or
\* guards fail verify_header_unlocked
RECURSIVE WalkFrom(_, _, _, _)
WalkFrom(H, bad, it, fuel) ==
    IF it = 0 THEN "ok"
    ELSE IF ~Mapped(H, it) THEN "fault"
    ELSE IF H[it].st = "dead" THEN "freed"        \* "Trying to access freed memory!"
    ELSE IF H[it].st # "valid" \/ it \in bad THEN "assert"
    ELSE IF fuel = 0 THEN "hang"                  \* a cycle: the walk never ends
    ELSE WalkFrom(H, bad, H[it].DEBUG_Next, fuel - 1)
verify_heap(T, bad) == WalkFrom(T.H, bad, T.Head, Cardinality(DOMAIN T.H))

\* the headers reached from DEBUG_Head along DEBUG_Next
RECURSIVE ListFrom(_, _, _)
ListFrom(H, it, fuel) ==
    IF it = 0 \/ ~Mapped(H, it) \/ fuel = 0 THEN <<>>
    ELSE <<it>> \o ListFrom(H, H[it].DEBUG_Next, fuel - 1)
TrackerList(T) == ListFrom(T.H, T.Head, Cardinality(DOMAIN T.H) + 1)
TrackerWellFormed(T) ==
    LET L == TrackerList(T)
    IN  /\ \A i, j \in 1..Len(L) : i # j => L[i] # L[j]
        /\ L # <<>> => T.H[L[Len(L)]].DEBUG_Next = 0
        /\ \A i \in 1..Len(L) :
               /\ T.H[L[i]].st = "valid"
               /\ T.H[L[i]].DEBUG_Previous = (IF i = 1 THEN 0 ELSE L[i - 1])

(***************************************************************************)
(* Threads calling general_allocate / general_reallocate / general_free    *)
(* on their own allocations (DEBUG_MEMORY build); only the tracker part of *)
(* the calls is modelled.                                                  *)
(***************************************************************************)
NumThreads == 2
NumHeaders == 3
MaxThreadOps == 4
Threads == 1..NumThreads
ThreadHeaders == 1..NumHeaders

FreshHeader == [DEBUG_Next |-> 0, DEBUG_Previous |-> 0, st |-> "fresh"]
\* encode_header: DEBUG_Next = DEBUG_Previous = null
EncodedHeader == [DEBUG_Next |-> 0, DEBUG_Previous |-> 0, st |-> "valid"]
\* fill_memory(block, DEAD_LAND_FILL, size)
DeadHeader == [DEBUG_Next |-> DeadPtr, DEBUG_Previous |-> DeadPtr, st |-> "dead"]

ThreadIdle == [pc |-> "idle", own |-> {}, h |-> 0, n |-> 0, prev |-> 0, next |-> 0]

ThreadsInit ==
    /\ debug = TRUE
    /\ lay = [st |-> "off"]
    /\ PoolIdle /\ FrontIdle /\ MoreIdle
    /\ thr = [t \in Threads |-> ThreadIdle]
    /\ trk = [ status |-> "ok", Head |-> 0, H |-> [h \in ThreadHeaders |-> FreshHeader],
               mutex |-> 0, live |-> {}, ops |-> 0 ]

\* memory the allocator may hand out: no live allocation, no call working on it
HeaderAvailable(h) ==
    /\ h \notin trk.live
    /\ \A t \in Threads : h \notin thr[t].own /\ h # thr[t].h /\ h # thr[t].n

ThreadMayStart(t) == trk.status = "ok" /\ thr[t].pc = "idle" /\ trk.ops < MaxThreadOps

\* verify_header(header) at the start of general_reallocate / general_free
HeaderCheck(h) ==
    IF trk.H[h].st = "valid" THEN "ok" ELSE IF trk.H[h].st = "dead" THEN "freed" ELSE "assert"

\* general_allocate up to DEBUG_add_header's lock: ALLOCATE, encode_header
TAllocate(t) ==
    /\ ThreadMayStart(t)
    /\ \E h \in ThreadHeaders :
         /\ HeaderAvailable(h)
         /\ thr' = [thr EXCEPT ![t].pc = "add", ![t].h = h]
         /\ trk' = [trk EXCEPT !.H[h] = EncodedHeader, !.ops = @ + 1]
    /\ UNCHANGED <<debug, lay, poolVars, frontVars, moreVars>>

\* thread::scoped_lock<thread::mutex> _(&DEBUG_Mutex)
TLock(t) ==
    /\ trk.status = "ok"
    /\ thr[t].pc \in {"add", "unlink", "swap", "verify"}
    /\ trk.mutex = 0
    /\ trk' = [trk EXCEPT !.mutex = t]
    /\ UNCHANGED <<debug, lay, poolVars, frontVars, moreVars, thr>>

\* DEBUG_add_header under the lock
TAdd(t) ==
    /\ trk.status = "ok" /\ thr[t].pc = "add" /\ trk.mutex = t
    /\ LET r == DEBUG_add_header(trk, thr[t].h)
       IN  trk' = [trk EXCEPT !.Head = r.Head, !.H = r.H, !.status = r.out, !.mutex = 0,
                              !.live = @ \cup {thr[t].h}]
    /\ thr' = [thr EXCEPT ![t].pc = "verify", ![t].own = @ \cup {thr[t].h}, ![t].h = 0]
    /\ UNCHANGED <<debug, lay, poolVars, frontVars, moreVars>>

\* general_free up to DEBUG_unlink_header's lock: verify_header
TFree(t) ==
    /\ ThreadMayStart(t)
    /\ \E h \in thr[t].own :
         /\ thr' = [thr EXCEPT ![t].pc = IF HeaderCheck(h) = "ok" THEN "unlink" ELSE "idle",
                               ![t].h = h]
         /\ trk' = [trk EXCEPT !.status = HeaderCheck(h), !.ops = @ + 1]
    /\ UNCHANGED <<debug, lay, poolVars, frontVars, moreVars>>

\* DEBUG_unlink_header under the lock, then the DEAD_LAND_FILL of the block and FREE
TUnlink(t) ==
    /\ trk.status = "ok" /\ thr[t].pc = "unlink" /\ trk.mutex = t
    /\ LET r == DEBUG_unlink_header(trk, thr[t].h)
       IN  trk' = [trk EXCEPT !.Head = r.Head, !.H = [r.H EXCEPT ![thr[t].h] = DeadHeader],
                              !.status = r.out, !.mutex = 0, !.live = @ \ {thr[t].h}]
    /\ thr' = [thr EXCEPT ![t].pc = "verify", ![t].own = @ \ {thr[t].h}, ![t].h = 0]
    /\ UNCHANGED <<debug, lay, poolVars, frontVars, moreVars>>

\* general_reallocate, move path, up to DEBUG_swap_header's lock: verify_header,
\* RESIZE (null), ALLOCATE, encode_header, then DEBUG_swap_header reads
\* oldHeader->DEBUG_Previous / DEBUG_Next and asserts DEBUG_Head
TReallocate(t) ==
    /\ ThreadMayStart(t)
    /\ \E h \in thr[t].own, n \in ThreadHeaders :
         /\ HeaderAvailable(n)
         /\ LET rd == SwapRead(trk, h)
                out == IF HeaderCheck(h) # "ok" THEN HeaderCheck(h)
                       ELSE IF trk.Head = 0 THEN "assert" ELSE "ok"
            IN  /\ thr' = [thr EXCEPT ![t].pc = IF out = "ok" THEN "swap" ELSE "idle",
                                      ![t].h = h, ![t].n = n,
                                      ![t].prev = rd.prev, ![t].next = rd.next]
                /\ trk' = [trk EXCEPT !.H[n] = EncodedHeader, !.status = out, !.ops = @ + 1]
    /\ UNCHANGED <<debug, lay, poolVars, frontVars, moreVars>>

\* the rest of DEBUG_swap_header under the lock, then the DEAD_LAND_FILL of the
\* old block and FREE
TSwap(t) ==
    /\ trk.status = "ok" /\ thr[t].pc = "swap" /\ trk.mutex = t
    /\ LET r == SwapLocked(trk, [prev |-> thr[t].prev, next |-> thr[t].next], thr[t].n)
       IN  trk' = [trk EXCEPT !.Head = r.Head, !.H = [r.H EXCEPT ![thr[t].h] = DeadHeader],
                              !.status = r.out, !.mutex = 0,
                              !.live = (@ \ {thr[t].h}) \cup {thr[t].n}]
    /\ thr' = [thr EXCEPT ![t].pc = "verify", ![t].own = (@ \ {thr[t].h}) \cup {thr[t].n},
                          ![t].h = 0, ![t].n = 0, ![t].prev = 0, ![t].next = 0]
    /\ UNCHANGED <<debug, lay, poolVars, frontVars, moreVars>>

\* general_reallocate when RESIZE returned the block: the tracker is not touched
TResize(t) ==
    /\ ThreadMayStart(t)
    /\ \E h \in thr[t].own :
         /\ thr' = [thr EXCEPT ![t].pc = IF HeaderCheck(h) = "ok" THEN "verify" ELSE "idle"]
         /\ trk' = [trk EXCEPT !.status = HeaderCheck(h), !.ops = @ + 1]
    /\ UNCHANGED <<debug, lay, poolVars, frontVars, moreVars>>

\* verify_heap() at the end of every call, under the lock
TVerify(t) ==
    /\ trk.status = "ok" /\ thr[t].pc = "verify" /\ trk.mutex = t
    /\ trk' = [trk EXCEPT !.status = verify_heap(trk, {}), !.mutex = 0]
    /\ thr' = [thr EXCEPT ![t].pc = "idle"]
    /\ UNCHANGED <<debug, lay, poolVars, frontVars, moreVars>>

ThreadsNext ==
    \E t \in Threads :
        \/ TAllocate(t) \/ TLock(t) \/ TAdd(t) \/ TFree(t) \/ TUnlink(t)
        \/ TReallocate(t) \/ TSwap(t) \/ TResize(t) \/ TVerify(t)

SpecThreads == ThreadsInit /\ [][ThreadsNext]_vars

\* C4: with threads allocating, freeing and reallocating their own allocations,
\* under every interleaving the tracker is a well-formed doubly-linked list that
\* holds exactly the headers of the live allocations.
C4_TrackerExactlyLive ==
    trk.status = "ok" =>
        /\ TrackerWellFormed(trk)
        /\ SeqRange(TrackerList(trk)) = trk.live

(***************************************************************************)
(* The front end (lstd allocator.cpp: general_allocate, general_reallocate,*)
(* general_free) over one allocator, called by one thread.  The allocator  *)
(* is either an allocator that keeps the protocol documented with          *)
(* allocator_func_t, or light-std's os_allocator.  Memory is FrontSlots    *)
(* slots of FrontStride bytes; a raw block starts at a slot's address, the *)
(* allocator hands out the lowest free slot and fails when none is free.   *)
(***************************************************************************)
FrontSlots == 3
MaxFrontOps == 3
MaxUserSize == 16
FrontStride == 19 * POINTER_SIZE
FrontBase == 128 * POINTER_SIZE
UserSizes == {0, 1, MaxUserSize}
FrontAlignments == {0, 2 * POINTER_SIZE}
FrontKinds == {"protocol", "os"}

\* a byte nothing was stored to
Unknown == -1

SlotAddr(k) == FrontBase + FrontStride * (k - 1)
SlotOf(addr) ==
    IF addr >= FrontBase /\ addr < FrontBase + FrontStride * FrontSlots
    THEN ((addr - FrontBase) \div FrontStride) + 1
    ELSE 0

\* fhdr: the headers by address
DeadU16 == DEAD_LAND_FILL * 256 + DEAD_LAND_FILL
ValidHeader(e, id) ==
    [ Size |-> e.Size, Alignment |-> e.Alignment, AlignmentPadding |-> e.AlignmentPadding,
      ID |-> id, RID |-> 0, DEBUG_Next |-> 0, DEBUG_Previous |-> 0, st |-> "valid" ]
DeadHeaderRec ==
    [ Size |-> DeadPtr, Alignment |-> DeadU16, AlignmentPadding |-> DeadU16,
      ID |-> DeadPtr, RID |-> DeadPtr, DEBUG_Next |-> DeadPtr, DEBUG_Previous |-> DeadPtr,
      st |-> "dead" ]
GarbageHeader == [DeadHeaderRec EXCEPT !.st = "clobbered"]
HdrAt(H, x) == IF x \in DOMAIN H THEN H[x] ELSE GarbageHeader

\* fmem: the bytes outside the headers, by address
MemAt(m, a) == IF a \in DOMAIN m THEN m[a] ELSE Unknown
InAnyHeader(H, a) == \E x \in DOMAIN H : a >= x /\ a < x + HeaderSize(debug)

fill_memory(m, H, lo, v, n) ==
    IF n <= 0 THEN m
    ELSE LET set == {a \in lo..(lo + n - 1) : ~InAnyHeader(H, a)}
         IN  [a \in (DOMAIN m) \cup set |-> IF a \in set THEN v ELSE m[a]]

copy_memory(m, H, dest, src, n) ==
    IF n <= 0 THEN m
    ELSE LET rng == {a \in dest..(dest + n - 1) : ~InAnyHeader(H, a)}
             known == {a \in rng : (src + (a - dest)) \in DOMAIN m}
         IN  [a \in ((DOMAIN m) \ (dest..(dest + n - 1))) \cup known |->
                 IF a \in known THEN m[src + (a - dest)] ELSE m[a]]

\* what a store to [lo, lo + n) does to the headers it reaches (own excepted):
\* a header wholly inside a DEAD_LAND_FILL becomes a freed header
HdrStore(H, lo, n, own, dead) ==
    [x \in DOMAIN H |->
        IF x = own \/ n <= 0 \/ x + HeaderSize(debug) <= lo \/ lo + n <= x THEN H[x]
        ELSE IF dead /\ lo <= x /\ x + HeaderSize(debug) <= lo + n THEN DeadHeaderRec
        ELSE [H[x] EXCEPT !.st = "clobbered"]]

\* verify_header_unlocked: "ok", "freed" ("Trying to access freed memory!") or
\* "assert" (any of the other assertions); nothing without DEBUG_MEMORY
TrailingGuardOk(H, m, x) ==
    \A i \in 0..(NO_MANS_LAND_SIZE - 1) :
        MemAt(m, x + HeaderSize(debug) + H[x].Size + i) = NO_MANS_LAND_FILL
verify_header_unlocked(H, m, x) ==
    IF ~debug THEN "ok"
    ELSE IF HdrAt(H, x).st = "dead" THEN "freed"
    ELSE IF HdrAt(H, x).st # "valid" THEN "assert"
    ELSE IF ~HeaderFieldsVerify(H[x]) THEN "assert"
    ELSE IF ~TrailingGuardOk(H, m, x) THEN "assert"
    ELSE "ok"
FrontBad(H, m) ==
    {x \in DOMAIN H : H[x].st = "valid" /\ verify_header_unlocked(H, m, x) # "ok"}

\* the allocator: slot k is "free" or "live" with the size it was asked for
AllocatorTake(a, k, size) == [a EXCEPT !.slots[k] = [st |-> "live", size |-> size]]
\* the slot ALLOCATE / os_alloc gives; 0 is the failure (null)
NextSlot(a, size) ==
    LET free == {k \in 1..FrontSlots : a.slots[k].st = "free"}
    IN  IF free = {} \/ size > FrontStride THEN 0
        ELSE CHOOSE k \in free : \A j \in free : k <= j
\* FREE / os_free
AllocatorFREE(a, block) ==
    LET k == SlotOf(block)
    IN  IF k # 0 /\ SlotAddr(k) = block /\ a.slots[k].st = "live"
        THEN [a |-> [a EXCEPT !.slots[k] = [st |-> "free", size |-> 0]], out |-> "ok"]
        ELSE [a |-> a, out |-> "bad_free"]

\* what a block newly handed out held before is not known any more
ForgetHeaders(H, k) ==
    IF k = 0 THEN H ELSE [x \in {y \in DOMAIN H : SlotOf(y) # k} |-> H[x]]
ForgetBytes(m, k) ==
    IF k = 0 THEN m ELSE [x \in {y \in DOMAIN m : SlotOf(y) # k} |-> m[x]]

\* RESIZE.  protocol: oldMemory (resized in place) or null, as the allocator
\* chooses.  os_allocator (REALLOCATE): oldMemory when shrinking, else a new
\* block with the old bytes copied and the old block freed.
AllocatorRESIZE(a, H, m, block, oldSize, newSize, choice) ==
    IF a.kind = "protocol"
    THEN IF choice = "old"
         THEN [ a |-> [a EXCEPT !.slots[SlotOf(block)].size = newSize], H |-> H, m |-> m,
                ret |-> block, nullStore |-> FALSE ]
         ELSE [a |-> a, H |-> H, m |-> m, ret |-> 0, nullStore |-> FALSE]
    ELSE IF newSize <= oldSize
         THEN [a |-> a, H |-> H, m |-> m, ret |-> block, nullStore |-> FALSE]
         ELSE LET k == NextSlot(a, newSize)
                  nb == IF k = 0 THEN 0 ELSE SlotAddr(k)
                  a1 == IF k = 0 THEN a ELSE AllocatorTake(a, k, newSize)
                  H0 == ForgetHeaders(H, k)
                  m1 == copy_memory(ForgetBytes(m, k), H0, nb, block, oldSize)
              IN  [ a |-> AllocatorFREE(a1, block).a, H |-> H0, m |-> m1,
                    ret |-> nb, nullStore |-> k = 0 ]
ResizeChoiceAllowed(a, block, oldSize, newSize, choice) ==
    IF a.kind = "protocol"
    THEN /\ choice \in {"old", "null"}
         /\ choice = "old" =>
              /\ SlotOf(block) # 0 /\ SlotAddr(SlotOf(block)) = block
              /\ a.slots[SlotOf(block)].st = "live"
              /\ newSize <= FrontStride
    ELSE IF newSize <= oldSize THEN choice = "old" ELSE choice = "new"

\* ALLOCATE gave slot k (0: null) and encode_header ran on that block: the
\* header e.header is written, the user bytes and the guard are filled
EncodedHeaders(H, k, userSize, e, id) ==
    LET guard == IF debug THEN NO_MANS_LAND_SIZE ELSE 0
        H0 == HdrStore(ForgetHeaders(H, k), e.header,
                       HeaderSize(debug) + userSize + guard, e.header, FALSE)
    IN  [x \in (DOMAIN H0) \cup {e.header} |->
            IF x = e.header THEN ValidHeader(e, id) ELSE H0[x]]
EncodedBytes(m, H1, k, userSize, e) ==
    IF debug
    THEN fill_memory(fill_memory(ForgetBytes(m, k), H1, e.user, CLEAN_LAND_FILL, userSize),
                     H1, e.user + userSize, NO_MANS_LAND_FILL, NO_MANS_LAND_SIZE)
    ELSE ForgetBytes(m, k)
EncodedFilled(m, k, userSize, e, H1) ==
    [ H |-> H1, m |-> EncodedBytes(m, H1, k, userSize, e),
      block |-> IF k = 0 THEN 0 ELSE SlotAddr(k), header |-> e.header, user |-> e.user,
      out |-> IF debug /\ ~e.aligned THEN "assert" ELSE "ok" ]
EncodedAt(H, m, k, userSize, id, e) ==
    EncodedFilled(m, k, userSize, e, EncodedHeaders(H, k, userSize, e, id))
Encoded(H, m, k, userSize, align, id) ==
    EncodedAt(H, m, k, userSize, id,
              encode_header(IF k = 0 THEN 0 ELSE SlotAddr(k), userSize, align, debug))

\* the first outcome that is not "ok"
FirstBad(outs) ==
    IF \A i \in 1..Len(outs) : outs[i] = "ok" THEN "ok"
    ELSE outs[CHOOSE i \in 1..Len(outs) :
                  outs[i] # "ok" /\ \A j \in 1..(i - 1) : outs[j] = "ok"]

\* what a call reads from the header in front of ptr
Decoded(ptr, newUserSize) ==
    LET header == ptr - HeaderSize(debug)
        h == HdrAt(fhdr, header)
        guard == IF debug THEN NO_MANS_LAND_SIZE ELSE 0
    IN  [ ptr |-> ptr, header |-> header, h |-> h, newUserSize |-> newUserSize,
          oldSize |-> h.Size + HeaderExtra(h, debug) + guard,
          newSize |-> newUserSize + HeaderExtra(h, debug) + guard,
          block |-> header - h.AlignmentPadding ]

FrontInit ==
    /\ debug \in BOOLEAN
    /\ lay = [st |-> "off"]
    /\ PoolIdle /\ ThreadsIdle /\ MoreIdle
    \* the last block of the allocator may be held by another of its clients
    /\ fa \in {[kind |-> kd,
                slots |-> [k \in 1..FrontSlots |->
                             [st |-> IF k <= n THEN "free" ELSE "taken", size |-> 0]]] :
                 kd \in FrontKinds, n \in {FrontSlots - 1, FrontSlots}}
    /\ fhdr = <<>>
    /\ fmem = <<>>
    /\ fe \in {[ status |-> "ok", Head |-> 0, AllocationCount |-> 0, handles |-> <<>>,
                  stale |-> 0, ops |-> 0, alignment |-> al,
                  \* the general_allocate calls made, and the ID the last one stamped
                  made |-> 0, lastID |-> 0 ] : al \in FrontAlignments}
    /\ fop = [op |-> "none"]

FrontMayCall == fe.status = "ok" /\ fe.ops < MaxFrontOps

\* general_allocate(userSize, alignment): ALLOCATE gave slot k, encode_header
\* made n, then DEBUG_add_header and verify_heap
AllocateTracked(n) ==
    IF debug THEN DEBUG_add_header([Head |-> fe.Head, H |-> n.H], n.header)
    ELSE [Head |-> fe.Head, H |-> n.H, out |-> "ok"]
AllocateVerified(userSize, required, k, n, T) ==
    [ a |-> IF k = 0 THEN fa ELSE AllocatorTake(fa, k, required),
      H |-> T.H, m |-> n.m, Head |-> T.Head, p |-> n.user, k |-> k, size |-> userSize,
      out |-> FirstBad(<< n.out, T.out,
                          IF debug THEN verify_heap(T, FrontBad(T.H, n.m)) ELSE "ok",
                          IF k = 0 THEN "null_store" ELSE "ok" >>),
      calls |-> <<[mode |-> "ALLOCATE", size |-> required, old |-> 0, ret |-> n.block]>> ]
AllocateEncoded(userSize, required, k, n) ==
    AllocateVerified(userSize, required, k, n, AllocateTracked(n))
AllocateFrom(userSize, a, required, k) ==
    AllocateEncoded(userSize, required, k,
                    Encoded(fhdr, fmem, k, userSize, a, fe.AllocationCount))
general_allocate(userSize, alignment) ==
    LET a == EffectiveAlignment(alignment)
        required == Required(userSize, a, debug)
    IN  AllocateFrom(userSize, a, required, NextSlot(fa, required))

\* the size of the request that produced the block an operation returned: the
\* last ALLOCATE or RESIZE among its calls that gave a block
AskedFor(calls) ==
    LET gave == {c \in 1..Len(calls) :
                    calls[c].mode \in {"ALLOCATE", "RESIZE"} /\ calls[c].ret # 0}
    IN  IF gave = {} THEN 0
        ELSE calls[CHOOSE c \in gave : \A c2 \in gave : c2 <= c].size
Allocated(r) ==
    \/ /\ fa' = r.a
       /\ fhdr' = r.H
       /\ fmem' = r.m
       /\ fe' = [fe EXCEPT !.Head = r.Head,
                           !.AllocationCount = IF debug THEN @ + 1 ELSE @,
                           !.handles = Append(@, [p |-> r.p, size |-> r.size,
                                                  raw |-> AskedFor(r.calls)]),
                           !.made = @ + 1,
                           !.lastID = IF debug THEN fe.AllocationCount ELSE @,
                           !.stale = IF r.k # 0 /\ SlotOf(@) = r.k THEN 0 ELSE @,
                           !.status = r.out,
                           !.ops = @ + 1]
       /\ fop' = [ op |-> "allocate", ptr |-> 0, size |-> r.size,
                   result |-> r.p, calls |-> r.calls ]
    \/ \* the block is null: the stores through it went to page 0 (status
       \* "null_store" above), or the first of them traps
       /\ r.k = 0
       /\ fe' = [fe EXCEPT !.status = "fault", !.ops = @ + 1]
       /\ fop' = [ op |-> "allocate", ptr |-> 0, size |-> r.size,
                   result |-> Unknown, calls |-> r.calls ]
       /\ UNCHANGED <<fa, fhdr, fmem>>

\* the caller asks for the same alignment in every call
FrontAllocate ==
    /\ FrontMayCall
    /\ \E userSize \in UserSizes : Allocated(general_allocate(userSize, fe.alignment))
    /\ UNCHANGED <<debug, lay, poolVars, thrVars, moreVars>>

\* general_reallocate, "Memory needs to be moved": ALLOCATE gave slot kk (0:
\* null), encode_header made n; ID and RID, the copy, the swap in the tracker,
\* the dead fill of the old block, FREE
\* the move without the stores to newHeader->ID and newHeader->RID
MoveCopied_fresh_header(q, n) ==
    [ H |-> HdrStore(n.H, n.user, q.h.Size, n.header, FALSE),
      m |-> copy_memory(n.m, n.H, n.user, q.ptr, q.h.Size) ]

MoveCopied(q, n) ==
    [ H |-> IF debug
            THEN [HdrStore(n.H, n.user, q.h.Size, n.header, FALSE)
                     EXCEPT ![n.header].ID = q.h.ID, ![n.header].RID = q.h.RID + 1]
            ELSE HdrStore(n.H, n.user, q.h.Size, n.header, FALSE),
      m |-> copy_memory(n.m, n.H, n.user, q.ptr, q.h.Size) ]
MoveSwapped(q, n, c) ==
    IF debug THEN DEBUG_swap_header([Head |-> fe.Head, H |-> c.H], q.header, n.header)
    ELSE [Head |-> fe.Head, H |-> c.H, out |-> "ok"]
MoveDead(q, c, sw) ==
    IF debug
    THEN [ H |-> HdrStore(sw.H, q.block, q.oldSize, 0, TRUE),
           m |-> fill_memory(c.m, sw.H, q.block, DEAD_LAND_FILL, q.oldSize) ]
    ELSE [H |-> sw.H, m |-> c.m]
MoveFreed(q, rs, kk) ==
    AllocatorFREE(IF kk = 0 THEN rs.a ELSE AllocatorTake(rs.a, kk, q.newSize), q.block)
ResizeCall(q, rs) == [mode |-> "RESIZE", size |-> q.newSize, old |-> q.block, ret |-> rs.ret]
Moved(q, rs, kk, n, sw, d, fr) ==
    [ moved |-> TRUE, p |-> n.user, own |-> n.header, block |-> n.block, H |-> d.H, m |-> d.m,
      Head |-> sw.Head, a |-> fr.a, outs |-> <<n.out, sw.out, fr.out>>,
      nullStore |-> rs.nullStore \/ kk = 0,
      calls |-> << ResizeCall(q, rs),
                   [mode |-> "ALLOCATE", size |-> q.newSize, old |-> 0, ret |-> n.block],
                   [mode |-> "FREE", size |-> 0, old |-> q.block, ret |-> 0] >> ]
MoveAfterSwap(q, rs, kk, n, c, sw) ==
    Moved(q, rs, kk, n, sw, MoveDead(q, c, sw), MoveFreed(q, rs, kk))
MoveAfterCopy(q, rs, kk, n, c) == MoveAfterSwap(q, rs, kk, n, c, MoveSwapped(q, n, c))
MoveAfterEncode(q, rs, kk, n) == MoveAfterCopy(q, rs, kk, n, MoveCopied(q, n))
MoveTo(q, rs, kk) ==
    MoveAfterEncode(q, rs, kk,
                    Encoded(rs.H, rs.m, kk, q.newUserSize, q.h.Alignment, fe.AllocationCount))

\* the in-place branch without the store to header->Size
ResizedInPlace_keeps_size(q, rs) ==
    [ moved |-> FALSE, p |-> q.ptr, own |-> q.header, block |-> rs.ret,
      H |-> IF q.header \in DOMAIN rs.H
            THEN [rs.H EXCEPT ![q.header].RID = IF debug THEN @ + 1 ELSE @]
            ELSE rs.H,
      m |-> rs.m, Head |-> fe.Head, a |-> rs.a,
      outs |-> <<IF ~debug \/ rs.ret = q.block THEN "ok" ELSE "assert">>,
      nullStore |-> rs.nullStore,
      calls |-> <<ResizeCall(q, rs)>> ]

\* "The block was resized sucessfully and it doesn't need moving"
ResizedInPlace(q, rs) ==
    [ moved |-> FALSE, p |-> q.ptr, own |-> q.header, block |-> rs.ret,
      H |-> IF q.header \in DOMAIN rs.H
            THEN [rs.H EXCEPT ![q.header].Size = q.newUserSize,
                              ![q.header].RID = IF debug THEN @ + 1 ELSE @]
            ELSE rs.H,
      m |-> rs.m, Head |-> fe.Head, a |-> rs.a,
      \* assert(block == newBlock)
      outs |-> <<IF ~debug \/ rs.ret = q.block THEN "ok" ELSE "assert">>,
      nullStore |-> rs.nullStore,
      calls |-> <<ResizeCall(q, rs)>> ]

\* after either branch b: the fill of the bytes gained or given up, the guard
\* after the user bytes, verify_heap
FilledRange(q, b) ==
    LET grown == q.oldSize < q.newSize
    IN  [ grown |-> grown,
          lo |-> IF grown THEN b.p + q.h.Size ELSE q.header + q.oldSize,
          n |-> IF grown THEN q.newSize - q.oldSize ELSE q.oldSize - q.newSize ]
ReallocateFilled(q, b) ==
    LET grown == FilledRange(q, b).grown
        lo == FilledRange(q, b).lo
        n == FilledRange(q, b).n
    IN  IF debug
        THEN [ H |-> HdrStore(b.H, lo, n, b.own, ~grown),
               m |-> fill_memory(b.m, b.H, lo,
                                 IF grown THEN CLEAN_LAND_FILL ELSE DEAD_LAND_FILL, n) ]
        ELSE [H |-> b.H, m |-> b.m]
ReallocateGuarded(q, b, f) ==
    IF debug
    THEN [ H |-> HdrStore(f.H, b.p + q.newUserSize, NO_MANS_LAND_SIZE, b.own, FALSE),
           m |-> fill_memory(f.m, f.H, b.p + q.newUserSize,
                             NO_MANS_LAND_FILL, NO_MANS_LAND_SIZE) ]
    ELSE f
\* the copies and the fills of one call, in program order: [lo, lo + n), and
\* whether the old raw block was still the allocator's when it was written
Written(lo, n, oldHeld) == [lo |-> lo, n |-> n, oldHeld |-> oldHeld]
ReallocateWrites(q, b) ==
    (IF b.moved
     THEN << \* encode_header: the clean fill and the guard
             Written(b.p, IF debug THEN q.newUserSize + NO_MANS_LAND_SIZE ELSE 0, TRUE),
             \* copy_memory(newPointer, ptr, header->Size)
             Written(b.p, q.h.Size, TRUE),
             \* fill_memory(block, DEAD_LAND_FILL, oldSize)
             Written(q.block, IF debug THEN q.oldSize ELSE 0, TRUE) >>
     ELSE <<>>)
    \o (IF debug
        THEN << Written(FilledRange(q, b).lo, FilledRange(q, b).n, ~b.moved),
                Written(b.p + q.newUserSize, NO_MANS_LAND_SIZE, ~b.moved) >>
        ELSE <<>>)
ReallocateVerified(q, b, g) ==
    [ a |-> b.a, H |-> g.H, m |-> g.m, Head |-> b.Head, p |-> b.p,
      moved |-> b.moved, newBlock |-> b.block, writes |-> ReallocateWrites(q, b),
      copied |-> IF b.moved THEN q.h.Size ELSE 0,
      nullStore |-> b.nullStore,
      out |-> FirstBad(b.outs \o
                       << IF debug
                          THEN verify_heap([Head |-> b.Head, H |-> g.H], FrontBad(g.H, g.m))
                          ELSE "ok",
                          IF b.nullStore THEN "null_store" ELSE "ok" >>),
      calls |-> b.calls ]
ReallocateAfterFill(q, b, f) == ReallocateVerified(q, b, ReallocateGuarded(q, b, f))
ReallocateAfterBranch(q, b) == ReallocateAfterFill(q, b, ReallocateFilled(q, b))
ReallocateAfterResize(q, rs) ==
    ReallocateAfterBranch(q, IF rs.ret = 0 THEN MoveTo(q, rs, NextSlot(rs.a, q.newSize))
                             ELSE ResizedInPlace(q, rs))
\* general_reallocate(ptr, newUserSize) past the Size check; choice is what the
\* allocator's RESIZE does
general_reallocate(q, choice) ==
    ReallocateAfterResize(
        q, AllocatorRESIZE(fa, fhdr, fmem, q.block, q.oldSize, q.newSize, choice))

\* the header a call reads first: verify_header with DEBUG_MEMORY; without it
\* a header that is not there any more sends the call anywhere
HeaderRead(ptr) ==
    LET x == ptr - HeaderSize(debug)
    IN  IF debug THEN verify_header_unlocked(fhdr, fmem, x)
        ELSE IF HdrAt(fhdr, x).st = "valid" THEN "ok" ELSE "wild"

\* the first n bytes at ptr
Prefix(m, ptr, n) == [i \in 1..n |-> MemAt(m, ptr + i - 1)]

ReallocateOp(q) ==
    [op |-> "reallocate", ptr |-> q.ptr, size |-> q.newUserSize, oldSize |-> q.h.Size]
ReallocateDone(q, r) ==
    ReallocateOp(q) @@ [ calls |-> r.calls, changed |-> TRUE, moved |-> r.moved,
                         copied |-> r.copied, writes |-> r.writes,
                         raw |-> [ block |-> q.block, oldSize |-> q.oldSize,
                                   newBlock |-> r.newBlock, newSize |-> q.newSize ],
                         before |-> Prefix(fmem, q.ptr, Min(q.h.Size, q.newUserSize)) ]
Reallocated(i, q, r) ==
    \/ /\ fa' = r.a
       /\ fhdr' = r.H
       /\ fmem' = r.m
       /\ fe' = [fe EXCEPT !.Head = r.Head,
                           !.AllocationCount = IF debug /\ r.moved THEN @ + 1 ELSE @,
                           !.handles[i] = [p |-> r.p, size |-> q.newUserSize,
                                           raw |-> AskedFor(r.calls)],
                           !.stale = 0,
                           !.status = r.out,
                           !.ops = @ + 1]
       /\ fop' = ReallocateDone(q, r) @@ [result |-> r.p]
    \/ \* a block is null: the stores through it went to page 0 (status
       \* "null_store" above), or the first of them traps
       /\ r.nullStore
       /\ fe' = [fe EXCEPT !.status = "fault", !.ops = @ + 1]
       /\ fop' = ReallocateDone(q, r) @@ [result |-> Unknown]
       /\ UNCHANGED <<fa, fhdr, fmem>>
ReallocateCalled(i, q) ==
    IF HeaderRead(q.ptr) # "ok"
    THEN /\ fe' = [fe EXCEPT !.status = HeaderRead(q.ptr), !.ops = @ + 1]
         /\ fop' = ReallocateOp(q) @@ [result |-> Unknown, calls |-> <<>>, changed |-> FALSE]
         /\ UNCHANGED <<fa, fhdr, fmem>>
    ELSE IF q.h.Size = q.newUserSize
    THEN /\ fe' = [fe EXCEPT !.ops = @ + 1]
         /\ fop' = ReallocateOp(q) @@ [result |-> q.ptr, calls |-> <<>>, changed |-> FALSE]
         /\ UNCHANGED <<fa, fhdr, fmem>>
    ELSE \E choice \in {"old", "null", "new"} :
           /\ ResizeChoiceAllowed(fa, q.block, q.oldSize, q.newSize, choice)
           /\ Reallocated(i, q, general_reallocate(q, choice))

FrontReallocate ==
    /\ FrontMayCall
    /\ \E i \in 1..Len(fe.handles), newUserSize \in UserSizes :
         ReallocateCalled(i, Decoded(fe.handles[i].p, newUserSize))
    /\ UNCHANGED <<debug, lay, poolVars, thrVars, moreVars>>

\* general_free(ptr), ptr not null: the unlink, the dead fill, FREE, verify_heap
FreeUnlinked(q) ==
    IF debug THEN DEBUG_unlink_header([Head |-> fe.Head, H |-> fhdr], q.header)
    ELSE [Head |-> fe.Head, H |-> fhdr, out |-> "ok"]
\* a dead fill of the payload alone
FreeDead_payload_only(q, un) ==
    IF debug
    THEN [ H |-> un.H,
           m |-> fill_memory(fmem, un.H, q.ptr, DEAD_LAND_FILL, q.h.Size) ]
    ELSE [H |-> un.H, m |-> fmem]
FreeDead(q, un) ==
    IF debug
    THEN [ H |-> HdrStore(un.H, q.block, q.oldSize, 0, TRUE),
           m |-> fill_memory(fmem, un.H, q.block, DEAD_LAND_FILL, q.oldSize) ]
    ELSE [H |-> un.H, m |-> fmem]
FreeVerified(q, un, d, fr) ==
    [ a |-> fr.a, H |-> d.H, m |-> d.m, Head |-> un.Head,
      out |-> FirstBad(<< un.out, fr.out,
                          IF debug
                          THEN verify_heap([Head |-> un.Head, H |-> d.H], FrontBad(d.H, d.m))
                          ELSE "ok" >>),
      calls |-> <<[mode |-> "FREE", size |-> 0, old |-> q.block, ret |-> 0]>>,
      \* the tracker and the memory as they are when func(FREE, ...) is invoked
      atFree |-> [ Head |-> un.Head, H |-> d.H, m |-> d.m,
                   block |-> q.block, size |-> q.oldSize ] ]
FreeAfterUnlink(q, un) == FreeVerified(q, un, FreeDead(q, un), AllocatorFREE(fa, q.block))
general_free(q) == FreeAfterUnlink(q, FreeUnlinked(q))

WithoutHandle(i) ==
    [j \in 1..(Len(fe.handles) - 1) |-> IF j < i THEN fe.handles[j] ELSE fe.handles[j + 1]]
Freed(op, q, r, handles) ==
    IF HeaderRead(q.ptr) # "ok"
    THEN /\ fe' = [fe EXCEPT !.status = HeaderRead(q.ptr), !.ops = @ + 1]
         /\ fop' = [op |-> op, ptr |-> q.ptr, calls |-> <<>>]
         /\ UNCHANGED <<fa, fhdr, fmem>>
    ELSE /\ fa' = r.a
         /\ fhdr' = r.H
         /\ fmem' = r.m
         /\ fe' = [fe EXCEPT !.Head = r.Head, !.handles = handles, !.stale = q.ptr,
                             !.status = r.out, !.ops = @ + 1]
         /\ fop' = [op |-> op, ptr |-> q.ptr, calls |-> r.calls, atFree |-> r.atFree]
FreeCalled(op, q, handles) == Freed(op, q, general_free(q), handles)

\* general_free(ptr) from its first line, without the return on a null pointer
FreePointer_no_null_check(op, ptr, handles) == FreeCalled(op, Decoded(ptr, 0), handles)

\* general_free(ptr) from its first line: "if (!ptr) return;"
FreePointer(op, ptr, handles) ==
    IF ptr = 0
    THEN /\ fop' = [op |-> op, ptr |-> ptr, calls |-> <<>>, again |-> fop.op = op]
         /\ UNCHANGED <<fa, fhdr, fmem, fe>>
    ELSE FreeCalled(op, Decoded(ptr, 0), handles)

FrontFree ==
    /\ FrontMayCall
    /\ \E i \in 1..Len(fe.handles) :
         FreePointer("free", fe.handles[i].p, WithoutHandle(i))
    /\ UNCHANGED <<debug, lay, poolVars, thrVars, moreVars>>

\* general_free(null)
FrontFreeNull ==
    /\ FrontMayCall
    /\ FreePointer("free_null", 0, fe.handles)
    /\ UNCHANGED <<debug, lay, poolVars, thrVars, moreVars>>

\* general_free(ptr) once more on the pointer freed last, its block not handed
\* out again in between.  The header is read out of freed memory: it is as the
\* first general_free left it, or the allocator has written into the free block.
FrontFreeAgain ==
    /\ FrontMayCall
    /\ fe.stale # 0
    /\ \/ FreeCalled("free_again", Decoded(fe.stale, 0), fe.handles)
       \/ /\ fe' = [fe EXCEPT !.status = IF debug THEN "assert" ELSE "wild",
                              !.ops = @ + 1]
          /\ fop' = [op |-> "free_again", ptr |-> fe.stale, calls |-> <<>>]
          /\ UNCHANGED <<fa, fhdr, fmem>>
    /\ UNCHANGED <<debug, lay, poolVars, thrVars, moreVars>>

\* the caller stores its data into the allocation it just got: byte i of it
\* becomes i + 1
UserData(m, p, size) ==
    [a \in (DOMAIN m) \cup (p..(p + size - 1)) |->
        IF a >= p /\ a < p + size THEN (a - p) + 1 ELSE m[a]]
FrontWrite ==
    /\ fe.status = "ok"
    /\ fop.op = "allocate"
    /\ Len(fe.handles) > 0
    /\ LET p == fe.handles[Len(fe.handles)].p
           size == fe.handles[Len(fe.handles)].size
       IN  /\ size > 0
           /\ fmem # UserData(fmem, p, size)
           /\ fmem' = UserData(fmem, p, size)
           /\ fhdr' = HdrStore(fhdr, p, size, 0, FALSE)
           /\ fop' = [op |-> "write", ptr |-> p, calls |-> <<>>]
    /\ UNCHANGED <<debug, lay, poolVars, thrVars, moreVars, fa, fe>>

FrontNext ==
    \/ FrontAllocate \/ FrontReallocate \/ FrontFree \/ FrontFreeAgain \/ FrontWrite
    \/ FrontFreeNull

SpecFront == FrontInit /\ [][FrontNext]_vars

\* C2: after general_reallocate of an allocation of old size s to a new size n,
\* the first min(s, n) bytes at the returned pointer are the first min(s, n)
\* bytes the allocation held, whether the block was resized in place or moved,
\* and on a move exactly min(s, n) payload bytes were copied into the new block.
C2_ReallocateKeepsPrefix ==
    (fop.op = "reallocate" /\ fop.changed /\ fe.status = "ok") =>
        /\ Prefix(fmem, fop.result, Min(fop.oldSize, fop.size)) = fop.before
        /\ fop.moved => fop.copied = Min(fop.oldSize, fop.size)

\* C3: after any sequence of allocate / reallocate / free calls, no two live
\* allocations have the same user pointer and their user regions do not
\* overlap, allocations of size 0 included.
C3_LiveAllocationsDisjoint ==
    fe.status = "ok" =>
        \A i, j \in 1..Len(fe.handles) :
            i < j =>
                /\ fe.handles[i].p # fe.handles[j].p
                /\ \/ fe.handles[i].p + fe.handles[i].size <= fe.handles[j].p
                   \/ fe.handles[j].p + fe.handles[j].size <= fe.handles[i].p

\* the call recorded in op made an ALLOCATE that returned null
AllocateFailed(op) ==
    /\ op.op \in {"allocate", "reallocate"}
    /\ \E c \in 1..Len(op.calls) : op.calls[c].mode = "ALLOCATE" /\ op.calls[c].ret = 0

\* C5: a call of general_allocate or general_reallocate in which ALLOCATE
\* returned null returns null to the caller and leaves the headers, the
\* tracker, the allocator and the allocations as they were.
C5_AllocateFailureIsReturned ==
    [][AllocateFailed(fop') =>
           /\ fop'.result = 0
           /\ fe'.status = "ok"
           /\ fhdr' = fhdr /\ fmem' = fmem /\ fa' = fa
           /\ fe'.Head = fe.Head /\ fe'.handles = fe.handles]_vars

\* C6: general_free on a pointer already freed, its memory not reused in
\* between, fails the assertion "Trying to access freed memory!" with
\* DEBUG_MEMORY and is a no-op without it; in neither build does it call the
\* allocator's FREE or change the tracker.
C6_SecondFreeIsCaughtOrNoOp ==
    [][fop'.op = "free_again" =>
           /\ fe'.status = IF debug THEN "freed" ELSE "ok"
           /\ fop'.calls = <<>>
           /\ fhdr' = fhdr /\ fa' = fa /\ fe'.Head = fe.Head]_vars

\* C25: general_free(null) returns without calling any allocator function,
\* without reading a header and without touching the tracker, so the state of
\* the allocator, the headers, the memory, the tracker and the live allocations
\* is as before, however often it is repeated.
C25_FreeNullIsNoOp ==
    [][fop'.op = "free_null" =>
           /\ fop'.calls = <<>>
           /\ fa' = fa /\ fhdr' = fhdr /\ fmem' = fmem
           /\ fe'.status = "ok" /\ fe'.Head = fe.Head /\ fe'.handles = fe.handles
           /\ fe'.AllocationCount = fe.AllocationCount]_vars
\* general_free(null) a second time in a row, with a live allocation tracked
C25_Witness ==
    /\ fop.op = "free_null" /\ fop.again
    /\ debug /\ Len(fe.handles) > 0 /\ fe.Head # 0 /\ fe.status = "ok"

\* the header in front of a user pointer, before and after a step
HeaderBefore(ptr) == HdrAt(fhdr, ptr - HeaderSize(debug))
HeaderAfter(ptr) == HdrAt(fhdr', ptr - HeaderSize(debug))

C31_AllocateIdIsPreviousPlusOne ==
    [][(debug /\ fop'.op = "allocate" /\ fe'.status = "ok" /\ fe.made > 0) =>
           HeaderAfter(fop'.result).ID = fe.lastID + 1]_vars

\* the bytes [w.lo, w.lo + w.n) lie in the old raw block while the allocator
\* has not got it back, or in the new raw block
WrittenInside(w, raw) ==
    \/ w.n = 0
    \/ w.oldHeld /\ raw.block <= w.lo /\ w.lo + w.n <= raw.block + raw.oldSize
    \/ raw.newBlock <= w.lo /\ w.lo + w.n <= raw.newBlock + raw.newSize

\* the byte at a holds the freed pattern
DeadAt(H, m, a) ==
    IF InAnyHeader(H, a)
    THEN \A x \in DOMAIN H : (a >= x /\ a < x + HeaderSize(debug)) => H[x].st = "dead"
    ELSE MemAt(m, a) = DEAD_LAND_FILL
LinkedAt(s) == TrackerList([Head |-> s.Head, H |-> s.H])

\* C38: in a debug build general_free of a live allocation has, when it calls
\* the owning allocator's FREE, unlinked the header and filled the whole raw
\* block with DEAD_LAND_FILL: the block is the one the allocator handed out,
\* the filled size is the size that was last requested from the allocator for
\* it (by ALLOCATE, or by the RESIZE that resized it in place),
\* every byte of it (header included) holds the pattern, and no header on
\* the tracker's list lies inside it.
C38_FreeFillsWholeBlockBeforeFREE ==
    [][(debug /\ fop'.op = "free" /\ fop'.calls # <<>>) =>
          LET s == fop'.atFree
              k == SlotOf(s.block)
              L == LinkedAt(s)
          IN  /\ fop'.calls[1].mode = "FREE" /\ fop'.calls[1].old = s.block
              /\ k # 0 /\ SlotAddr(k) = s.block
              /\ fa.slots[k].st = "live"
              /\ \E i \in 1..Len(fe.handles) :
                    fe.handles[i].p = fop'.ptr /\ fe.handles[i].raw = s.size
              /\ \A a \in s.block..(s.block + s.size - 1) : DeadAt(s.H, s.m, a)
              /\ \A i \in 1..Len(L) :
                    /\ L[i] # fop'.ptr - HeaderSize(debug)
                    /\ L[i] + HeaderSize(debug) <= s.block \/ L[i] >= s.block + s.size]_vars
C38_Witness ==
    /\ debug /\ fop.op = "free" /\ fop.calls # <<>> /\ fe.status = "ok"
    /\ fop.atFree.Head # 0 /\ Len(LinkedAt(fop.atFree)) = 1
    /\ fop.atFree.size > HeaderSize(debug) + NO_MANS_LAND_SIZE
    /\ DeadAt(fop.atFree.H, fop.atFree.m, fop.ptr)

\* C28: every copy and every fill of general_reallocate, growing or shrinking,
\* in place or moving, stays within [block, block + oldSize) of the old raw
\* block while that block is not freed, or within [newBlock, newBlock + newSize)
\* of the new raw block.
C28_ReallocateWritesInsideBlocks ==
    (fop.op = "reallocate" /\ fop.changed /\ fe.status = "ok") =>
        \A i \in 1..Len(fop.writes) : WrittenInside(fop.writes[i], fop.raw)

\* the tracker of the front end, and the headers of the allocations the caller
\* holds: those allocated and not freed
FrontTracker == [Head |-> fe.Head, H |-> fhdr]
LiveHeaders == {fe.handles[i].p - HeaderSize(debug) : i \in 1..Len(fe.handles)}

TrackerLinked(T) ==
    LET L == TrackerList(T)
    IN  /\ T.Head # 0 => (Mapped(T.H, T.Head) /\ T.H[T.Head].DEBUG_Previous = 0)
        /\ \A i \in 1..Len(L) :
              LET nx == T.H[L[i]].DEBUG_Next
                  pv == T.H[L[i]].DEBUG_Previous
              IN  /\ nx # 0 => (Mapped(T.H, nx) /\ T.H[nx].DEBUG_Previous = L[i])
                  /\ pv # 0 => (Mapped(T.H, pv) /\ T.H[pv].DEBUG_Next = L[i])
        /\ \A i, j \in 1..Len(L) : i # j => L[i] # L[j]
        /\ L # <<>> => T.H[L[Len(L)]].DEBUG_Next = 0

RawBlockLive(block) ==
    /\ SlotOf(block) # 0 /\ SlotAddr(SlotOf(block)) = block
    /\ fa.slots[SlotOf(block)].st = "live"
C12_ResizedInPlaceKeepsPointer ==
    (fop.op = "reallocate" /\ fop.changed) =>
        /\ (fa.kind = "os" /\ fop.size <= fop.oldSize) =>
               fop.calls[1].ret = fop.calls[1].old
        /\ (fop.calls[1].ret = fop.calls[1].old /\ RawBlockLive(fop.calls[1].old)) =>
               /\ fop.result = fop.ptr
               /\ HdrAt(fhdr, fop.ptr - HeaderSize(debug)).Size = fop.size
               /\ Len(fop.calls) = 1
C12_Witness ==
    /\ fop.op = "reallocate" /\ fop.changed /\ fe.status = "ok"
    /\ fa.kind = "os" /\ fop.oldSize = MaxUserSize /\ fop.size = 1
    /\ fop.calls[1].ret = fop.calls[1].old /\ RawBlockLive(fop.calls[1].old)
    /\ fop.result = fop.ptr

(***************************************************************************)
(* The temporary allocator (light-std lstd/memory/allocator.cpp,           *)
(* temporary_allocator over temporary_allocator_data): the base page and   *)
(* the overflow pages, every storage it got from Malloc, the regions it    *)
(* returned since the last FREE_ALL.  Sizes are in bytes; the front end    *)
(* never asks for 0 bytes (a request includes the header).                 *)
(***************************************************************************)
KiB == 1024
MaxTempOps == 4
TempSizes == {4 * KiB, 10 * KiB}
EightKiB == 8 * KiB

\* (x + 8_KiB - 1) & -8_KiB
RoundUp8KiB(x) == ((x + EightKiB - 1) \div EightKiB) * EightKiB

\* the smallest power of two >= x
RECURSIVE Pow2From(_, _)
Pow2From(p, x) == IF p >= x THEN p ELSE Pow2From(2 * p, x)
ceil_pow_of_2(x) == Pow2From(1, x)

\* floor(log2(x)), x >= 1
RECURSIVE FloorLog2(_)
FloorLog2(x) == IF x < 2 THEN 0 ELSE 1 + FloorLog2(x \div 2)
CeilDiv(a, b) == (a + b - 1) \div b

\* ceil_pow_of_2((size_t) ceil(Reserved * (log2(Reserved * 10.0) / 3))): with
\* n <= log2(10 * Reserved) < n + 1 the product lies between Reserved * n / 3
\* and Reserved * (n + 1) / 3; every power of two that bracket allows
LoggedPow2(reserved) ==
    LET n == FloorLog2(reserved * 10)
    IN  {ceil_pow_of_2(x) : x \in {CeilDiv(reserved * n, 3), CeilDiv(reserved * (n + 1), 3)}}
ReserveTargets(reserved, size) ==
    {RoundUp8KiB(Max(ceil_pow_of_2(size * 2), lp)) : lp \in LoggedPow2(reserved)}

EmptyPage == [Storage |-> 0, Reserved |-> 0, Used |-> 0]
\* new (Malloc) char[size]: a storage not seen before
NewStorage(d, size) == [d EXCEPT !.storages = Append(@, [size |-> size, frees |-> 0])]
\* delete[] storage
DeleteStorage(d, id) ==
    IF id = 0 THEN d ELSE [d EXCEPT !.storages[id].frees = @ + 1]

\* "The temporary allocator hasn't been initialized yet."
TempEnsureBase(d, size) ==
    IF d.pages[1].Reserved # 0 THEN d
    ELSE [NewStorage(d, RoundUp8KiB(size * 2)) EXCEPT
              !.pages[1].Storage = Len(d.storages) + 1,
              !.pages[1].Reserved = RoundUp8KiB(size * 2)]

\* the page the ALLOCATE loop stops at: the first with Used + size < Reserved
\* among those that have a Next, else the last
RECURSIVE TempScan(_, _, _)
TempScan(pages, size, i) ==
    IF i = Len(pages) \/ pages[i].Used + size < pages[i].Reserved THEN i
    ELSE TempScan(pages, size, i + 1)

\* the overflow page appended behind page i, its capacity target
TempAppendPage(d, target) ==
    [NewStorage(d, target) EXCEPT
        !.pages = Append(@, [Storage |-> Len(d.storages) + 1, Reserved |-> target,
                             Used |-> 0])]
\* a bump that hands out the start of page i again and again
TempBump_from_page_start(d, i, size) ==
    [d EXCEPT !.pages[i].Used = size,
              !.TotalUsed = @ + size,
              !.given = Append(@, [page |-> d.pages[i].Storage, off |-> 0, size |-> size]),
              !.ret = [page |-> d.pages[i].Storage, off |-> 0, size |-> size],
              !.appended = Len(d.pages) - Len(ta.pages)]
\* the bump in page i
TempBump(d, i, size) ==
    [d EXCEPT !.pages[i].Used = @ + size,
              !.TotalUsed = @ + size,
              !.given = Append(@, [page |-> d.pages[i].Storage, off |-> d.pages[i].Used,
                                   size |-> size]),
              !.ret = [page |-> d.pages[i].Storage, off |-> d.pages[i].Used, size |-> size],
              !.appended = Len(d.pages) - Len(ta.pages),
              !.status = IF d.pages[i].Storage = 0 THEN "assert" ELSE @]   \* assert(result)
\* ALLOCATE that bumps in the page the loop stopped at whether it fits or not
TempAllocateAt_never_appends(d, i, size, target) == TempBump(d, i, size)
TempAllocateAt(d, i, size, target) ==
    IF d.pages[i].Used + size >= d.pages[i].Reserved
    THEN IF i # Len(d.pages)
         THEN [d EXCEPT !.status = "assert"]                              \* assert(!p->Next)
         ELSE TempBump(TempAppendPage(d, target), Len(d.pages) + 1, size)
    ELSE TempBump(d, i, size)
\* case allocator_mode::ALLOCATE, after the base page is there
TempALLOCATE(d, size, target) == TempAllocateAt(d, TempScan(d.pages, size, 1), size, target)
TempTargets(d, size) ==
    ReserveTargets(d.pages[TempScan(d.pages, size, 1)].Reserved, size)

\* case allocator_mode::FREE_ALL
RECURSIVE SumReserved(_, _)
SumReserved(pages, i) ==
    IF i > Len(pages) THEN 0 ELSE pages[i].Reserved + SumReserved(pages, i + 1)
RECURSIVE DeleteOverflow(_, _)
DeleteOverflow(d, i) ==
    IF i > Len(d.pages) THEN d
    ELSE DeleteOverflow(DeleteStorage(d, d.pages[i].Storage), i + 1)
\* FREE_ALL that keeps the base page's storage as it is
TempRebase_keeps_base(d, targetSize) == [d EXCEPT !.pages = <<[d.pages[1] EXCEPT !.Used = 0]>>]
TempRebase(d, targetSize) ==
    IF targetSize # d.pages[1].Reserved
    THEN [NewStorage(DeleteStorage(d, d.pages[1].Storage), targetSize) EXCEPT
              !.pages = <<[Storage |-> Len(d.storages) + 1, Reserved |-> targetSize,
                           Used |-> 0]>>]
    ELSE [d EXCEPT !.pages = <<[d.pages[1] EXCEPT !.Used = 0]>>]
\* FREE_ALL that drops the overflow pages without enlarging the base page
TempFREE_ALL_drops_overflow(d) ==
    [TempRebase(DeleteOverflow(d, 2), d.pages[1].Reserved) EXCEPT
        !.TotalUsed = 0, !.given = <<>>, !.ret = 0, !.appended = 0]
TempFREE_ALL(d) ==
    [TempRebase(DeleteOverflow(d, 2), SumReserved(d.pages, 1)) EXCEPT
        !.TotalUsed = 0, !.given = <<>>, !.ret = 0, !.appended = 0]

TempInit ==
    /\ debug = TRUE
    /\ lay = [st |-> "off"]
    /\ PoolIdle /\ ThreadsIdle /\ FrontIdle /\ DefaultIdle /\ ContextIdle /\ CyclesIdle /\ HeapIdle /\ LeaksIdle
    /\ ta = [ st |-> "on", status |-> "ok", pages |-> <<EmptyPage>>, TotalUsed |-> 0,
              storages |-> <<>>, given |-> <<>>, ret |-> 0, appended |-> 0,
              mode |-> "none", size |-> 0, before |-> <<EmptyPage>>, ops |-> 0 ]

TempMayCall == ta.status = "ok" /\ ta.ops < MaxTempOps
TempCalled(d, mode, size) ==
    [d EXCEPT !.mode = mode, !.size = size, !.before = ta.pages, !.ops = @ + 1]
outsideTemp == <<debug, lay, poolVars, thrVars, frontVars, dh, cx, pc, hp, lk>>

TempAllocate ==
    /\ TempMayCall
    /\ \E size \in TempSizes :
         \E target \in TempTargets(TempEnsureBase(ta, size), size) :
            ta' = TempCalled(TempALLOCATE(TempEnsureBase(ta, size), size, target),
                             "ALLOCATE", size)
    /\ UNCHANGED outsideTemp

\* REALLOCATE of a region the caller holds: the old region when it does not
\* grow, else a fresh region (the copy of the bytes is not part of this state)
TempReallocate ==
    /\ TempMayCall
    /\ \E g \in 1..Len(ta.given), size \in TempSizes :
         IF size <= ta.given[g].size
         THEN ta' = TempCalled([TempEnsureBase(ta, size) EXCEPT !.ret = ta.given[g],
                                                               !.appended = 0],
                               "REALLOCATE", size)
         ELSE \E target \in TempTargets(TempEnsureBase(ta, size), size) :
                ta' = TempCalled(TempALLOCATE(TempEnsureBase(ta, size), size, target),
                                 "REALLOCATE", size)
    /\ UNCHANGED outsideTemp

\* FREE: "We don't free individual allocations in the temporary allocator"
TempFree ==
    /\ TempMayCall
    /\ ta.given # <<>>
    /\ ta' = TempCalled([TempEnsureBase(ta, 0) EXCEPT !.ret = 0, !.appended = 0], "FREE", 0)
    /\ UNCHANGED outsideTemp

TempFreeAll ==
    /\ TempMayCall
    /\ ta' = TempCalled(TempFREE_ALL(TempEnsureBase(ta, 0)), "FREE_ALL", 0)
    /\ UNCHANGED outsideTemp

TempNext == TempAllocate \/ TempReallocate \/ TempFree \/ TempFreeAll

SpecTemp == TempInit /\ [][TempNext]_vars

\* no page with storage has size bytes left
TempNoRoom(pages, size) ==
    \A i \in 1..Len(pages) : pages[i].Reserved - pages[i].Used < size
TempPagesWithStorage(pages) == {i \in 1..Len(pages) : pages[i].Reserved > 0}
TempRegionInside(g, pages) ==
    \E i \in 1..Len(pages) :
        /\ pages[i].Storage = g.page /\ pages[i].Reserved > 0
        /\ g.off >= 0 /\ g.off + g.size <= pages[i].Reserved

\* C13: when an ALLOCATE fits in no existing page, exactly one page is added at
\* the tail of the chain and the others are left as they were; the new page's
\* capacity is larger than the request and a multiple of 8 KiB (of 16 KiB for a
\* 10 KiB request against one 8 KiB base page), and the region returned lies
\* inside that page.  In every state every region handed out lies inside one
\* page.
C13_OverflowPageHoldsRequest ==
    /\ (ta.mode = "ALLOCATE" /\ TempNoRoom(ta.before, ta.size)) =>
          LET last == ta.pages[Len(ta.pages)]
          IN  /\ Cardinality(TempPagesWithStorage(ta.pages))
                     = Cardinality(TempPagesWithStorage(ta.before)) + 1
              /\ \A i \in TempPagesWithStorage(ta.before) : ta.pages[i] = ta.before[i]
              /\ last.Reserved > ta.size
              /\ last.Reserved % EightKiB = 0
              /\ (ta.before = <<[Storage |-> 1, Reserved |-> EightKiB, Used |-> 4 * KiB]>>
                    /\ ta.size = 10 * KiB) => last.Reserved % (2 * EightKiB) = 0
              /\ ta.ret.page = last.Storage
              /\ ta.ret.off = 0 /\ ta.ret.size = ta.size
              /\ ta.ret.size <= last.Reserved
    /\ ta.st = "on" => \A g \in 1..Len(ta.given) : TempRegionInside(ta.given[g], ta.pages)
C13_Witness ==
    /\ ta.mode = "ALLOCATE" /\ ta.size = 10 * KiB
    /\ ta.before = <<[Storage |-> 1, Reserved |-> EightKiB, Used |-> 4 * KiB]>>
    /\ Len(ta.pages) = 2 /\ ta.pages[2].Reserved = 8 * EightKiB
    /\ ta.ret = [page |-> 2, off |-> 0, size |-> 10 * KiB]

\* C14: after FREE_ALL the chain is the base page alone, every overflow page
\* there was has been freed exactly once, the base page's capacity is the sum
\* of the capacities of the pages there were before the call, and Base.Used
\* and TotalUsed are 0.
C14_FreeAllMergesPages ==
    ta.mode = "FREE_ALL" =>
        /\ Len(ta.pages) = 1
        /\ \A i \in 2..Len(ta.before) : ta.storages[ta.before[i].Storage].frees = 1
        /\ ta.pages[1].Reserved = SumReserved(ta.before, 1)
        /\ ta.pages[1].Used = 0
        /\ ta.TotalUsed = 0
C14_Witness ==
    /\ ta.mode = "FREE_ALL"
    /\ Len(ta.before) = 2 /\ ta.before[2].Reserved = 8 * EightKiB /\ ta.before[2].Used > 0
    /\ ta.pages = <<[Storage |-> 3, Reserved |-> 9 * EightKiB, Used |-> 0]>>

RECURSIVE SumUsed(_, _)
SumUsed(pages, i) ==
    IF i > Len(pages) THEN 0 ELSE pages[i].Used + SumUsed(pages, i + 1)
TempRegionsDisjoint(g, h) ==
    (g.page = h.page /\ g.size > 0 /\ h.size > 0) =>
        (g.off + g.size <= h.off \/ h.off + h.size <= g.off)

\* C40: in every state of the temporary allocator TotalUsed is the sum of
\* Used over the pages of the chain, every page has 0 <= Used <= Reserved,
\* and the non-empty regions handed out since the last FREE_ALL are pairwise
\* disjoint.
C40_TotalUsedAndDisjointRegions ==
    ta.st = "on" =>
        /\ ta.TotalUsed = SumUsed(ta.pages, 1)
        /\ \A i \in 1..Len(ta.pages) :
              ta.pages[i].Used >= 0 /\ ta.pages[i].Used <= ta.pages[i].Reserved
        /\ \A g, h \in 1..Len(ta.given) :
              g # h => TempRegionsDisjoint(ta.given[g], ta.given[h])
C40_Witness ==
    /\ ta.st = "on" /\ ta.status = "ok"
    /\ Len(ta.pages) = 2 /\ ta.pages[1].Used > 0 /\ ta.pages[2].Used > 0
    /\ ta.TotalUsed = 24 * KiB
    /\ Len(ta.given) = 3
    /\ ta.given[1].page = ta.given[2].page /\ ta.given[2].off = ta.given[1].size
    /\ ta.given[3].page # ta.given[1].page

(***************************************************************************)
(* The temporary allocator under repeated cycles: some ALLOCATE requests   *)
(* (pc.pre) may have been served already, then the requests pc.gets are    *)
(* run, FREE_ALL is called, and pc.gets is run again after every FREE_ALL. *)
(* pc.appended counts the overflow pages the current cycle has appended,   *)
(* pc.first those the first cycle appended.                                *)
(***************************************************************************)
MaxSteadyPre == 1
MaxSteadyGets == 2
MaxSteadyCycles == 3
SteadyScripts(lo, hi) == UNION {[1..n -> TempSizes] : n \in lo..hi}

SteadyInit ==
    /\ debug = TRUE
    /\ lay = [st |-> "off"]
    /\ PoolIdle /\ ThreadsIdle /\ FrontIdle /\ DefaultIdle /\ ContextIdle /\ HeapIdle /\ LeaksIdle
    /\ ta = [ st |-> "on", status |-> "ok", pages |-> <<EmptyPage>>, TotalUsed |-> 0,
              storages |-> <<>>, given |-> <<>>, ret |-> 0, appended |-> 0,
              mode |-> "none", size |-> 0, before |-> <<EmptyPage>>, ops |-> 0 ]
    /\ \E pre \in SteadyScripts(0, MaxSteadyPre), gets \in SteadyScripts(1, MaxSteadyGets) :
         pc = [ st |-> "steady", pre |-> pre, gets |-> gets, pos |-> 0, cycle |-> 1,
                appended |-> 0, first |-> 0 ]

SteadyScript == IF pc.cycle = 1 THEN pc.pre \o pc.gets ELSE pc.gets
outsideSteady == <<debug, lay, poolVars, thrVars, frontVars, dh, cx, hp, lk>>

\* the next request of the script
SteadyAllocate ==
    /\ pc.st = "steady" /\ ta.status = "ok"
    /\ pc.pos < Len(SteadyScript)
    /\ LET size == SteadyScript[pc.pos + 1]
       IN  \E target \in TempTargets(TempEnsureBase(ta, size), size) :
              /\ ta' = TempCalled(TempALLOCATE(TempEnsureBase(ta, size), size, target),
                                  "ALLOCATE", size)
              /\ pc' = [pc EXCEPT !.pos = @ + 1,
                                  !.appended = @ + ta'.appended,
                                  !.first = IF pc.cycle = 1 THEN @ + ta'.appended ELSE @]
    /\ UNCHANGED outsideSteady

\* FREE_ALL at the end of the script
SteadyFreeAll ==
    /\ pc.st = "steady" /\ ta.status = "ok"
    /\ pc.pos = Len(SteadyScript)
    /\ pc.cycle < MaxSteadyCycles
    /\ ta' = TempCalled(TempFREE_ALL(TempEnsureBase(ta, 0)), "FREE_ALL", 0)
    /\ pc' = [pc EXCEPT !.pos = 0, !.cycle = @ + 1, !.appended = 0]
    /\ UNCHANGED outsideSteady

SteadyNext == SteadyAllocate \/ SteadyFreeAll

SpecSteady == SteadyInit /\ [][SteadyNext]_vars

\* C37: when a sequence of ALLOCATE requests has been run and FREE_ALL called,
\* running the same sequence again appends no overflow page: every request
\* of the second and of every later cycle is served from the base page, which
\* is the only page of the chain.
C37_SecondRunAppendsNoPage ==
    (pc.st = "steady" /\ pc.cycle >= 2) =>
        /\ ta.status = "ok"
        /\ pc.appended = 0
        /\ Len(ta.pages) = 1
        /\ \A g \in 1..Len(ta.given) : ta.given[g].page = ta.pages[1].Storage
C37_Witness ==
    /\ pc.st = "steady" /\ pc.first > 0
    /\ pc.cycle = MaxSteadyCycles /\ pc.pos = Len(pc.gets)
    /\ Len(ta.given) = Len(pc.gets) /\ Len(ta.pages) = 1

(***************************************************************************)
(* The pool under repeated reset + get cycles (pool.cpp: get, reset)       *)
(* pc.pre are the get sizes before the first reset, pc.gets the get sizes  *)
(* repeated after every reset; pc.news[k] counts the New<u8> calls of the  *)
(* k-th cycle, the ones its reset makes included.                          *)
(***************************************************************************)
MaxPreGets == 2
MaxCycleGets == 2
MaxCycles == 3
CycleSizes == {0, PoolAlignment, MaxGetWords * PoolAlignment}
\* two get sizes that are no multiples of the alignment
FirstGet == PoolAlignment + 2
SecondGet == 2 * PoolAlignment + 4
Scripts(sizes, lo, hi) == UNION {[1..k -> sizes] : k \in lo..hi}

CyclesInit ==
    /\ debug = FALSE
    /\ lay = [st |-> "off"]
    /\ ThreadsIdle /\ FrontIdle /\ TempIdle /\ DefaultIdle /\ ContextIdle
    /\ pool = [ BlockSize |-> InitBlockSize, UnusedMemblocks |-> <<>>, UsedMemblocks |-> <<>>,
                ObsoletedMemblocks |-> <<>>, CurrentMemblock |-> 0, CurrentPosition |-> 0,
                BytesLeft |-> 0 ]
    /\ praw = <<>>
    /\ pgiven = <<>>
    /\ pmem = <<>>
    /\ pret = [mode |-> "none", fault |-> FALSE]
    /\ HeapIdle /\ LeaksIdle
    /\ \E pre \in Scripts(CycleSizes \cup {FirstGet, SecondGet}, 0, MaxPreGets),
            gets \in Scripts(CycleSizes, 1, MaxCycleGets) :
         pc = [st |-> "on", pre |-> pre, gets |-> gets, phase |-> "pre", pos |-> 0, news |-> <<>>]

outsideCycles == <<debug, lay, thrVars, frontVars, ta, dh, cx, hp, lk>>
CycleScript == IF pc.phase = "pre" THEN pc.pre ELSE pc.gets
CountNew(news, calls) ==
    IF calls /\ news # <<>> THEN [news EXCEPT ![Len(news)] = @ + 1] ELSE news

\* the next get(pool, size) of the script
CycleGet ==
    /\ pc.st = "on" /\ pc.pos < Len(CycleScript)
    /\ \E addr \in PoolAddrs \cup {0} :
         LET size == CycleScript[pc.pos + 1]
             calls == GetCallsNew(pool, size)
             g == get(pool, size, addr)
         IN  /\ NewChoice(calls, praw, GetNewSize(pool, size), addr)
             /\ pool' = g.pool
             /\ praw' = IF calls THEN RawNew(praw, addr, GetNewSize(pool, size)) ELSE praw
             /\ pgiven' = Append(pgiven, [ret |-> g.ret, size |-> size])
             /\ pret' = [mode |-> "ALLOCATE", size |-> size, result |-> g.ret, fault |-> FALSE]
             /\ pc' = [pc EXCEPT !.pos = @ + 1, !.news = CountNew(@, calls)]
    /\ UNCHANGED <<outsideCycles, pmem>>

\* reset(pool) once the script is through: the next cycle starts
CycleReset ==
    /\ pc.st = "on" /\ pc.pos = Len(CycleScript) /\ Len(pc.news) < MaxCycles
    /\ \E addr \in PoolAddrs \cup {0} :
         LET calls == ResetCallsNew(pool)
             freed == RawDeleteAll(praw, pool.ObsoletedMemblocks)
         IN  /\ NewChoice(calls, freed, pool.BlockSize, addr)
             /\ pool' = reset(pool, addr)
             /\ praw' = IF calls THEN RawNew(freed, addr, pool.BlockSize) ELSE freed
             /\ pc' = [pc EXCEPT !.phase = "cycle", !.pos = 0,
                                 !.news = CountNew(Append(@, 0), calls)]
    /\ pgiven' = <<>>
    /\ pret' = [mode |-> "FREE_ALL", result |-> 0, fault |-> FALSE]
    /\ UNCHANGED <<outsideCycles, pmem>>

CyclesNext == CycleGet \/ CycleReset

SpecCycles == CyclesInit /\ [][CyclesNext]_vars

\* the cycles that ran their whole script
CyclesDone == IF pc.pos = Len(pc.gets) THEN Len(pc.news) ELSE Len(pc.news) - 1

\* C15: when the same get() calls are repeated after each reset, a cycle makes
\* no more New<u8> calls than the cycle before it.
C15_NewCallsNonIncreasing ==
    (pc.st = "on" /\ pc.phase = "cycle") =>
        \A k \in 1..(CyclesDone - 1) : pc.news[k + 1] <= pc.news[k]

\* a fresh pool (BlockSize 16, Alignment 8) that was asked get(10), then get(20)
TenThenTwenty(done) ==
    /\ pc.st = "on" /\ pc.phase = "pre" /\ pc.pre = <<FirstGet, SecondGet>>
    /\ pc.pos = done

\* C16 as stated: get(10) grows BlockSize to 32 and obsoletes nothing; get(20)
\* is served from the rest of the same Current block, with no New call and
\* Obsolete still empty.
C16_SecondGetFromSameBlock ==
    /\ TenThenTwenty(1) =>
          /\ pool.BlockSize = 2 * InitBlockSize
          /\ pool.ObsoletedMemblocks = <<>>
    /\ TenThenTwenty(2) =>
          /\ pool.CurrentMemblock = pgiven[1].ret
          /\ pgiven[2].ret = pgiven[1].ret + PaddedSize(FirstGet)
          /\ Len(praw) = 1
          /\ pool.ObsoletedMemblocks = <<>>

\* C16 (amended): get(10) is padded to 16, leaves BlockSize at 16 and takes the
\* whole of one New block of 16 bytes, nothing obsoleted; get(20) is padded to
\* 24, grows BlockSize to 32, moves the first block to Obsolete and is served
\* from the start of a second New block of 32 bytes, which is Current.
C16_SecondGetFromNewBlock ==
    /\ TenThenTwenty(1) =>
          /\ pool.BlockSize = InitBlockSize
          /\ pool.ObsoletedMemblocks = <<>>
          /\ Len(praw) = 1 /\ praw[1].size = InitBlockSize
          /\ pool.CurrentMemblock = praw[1].addr /\ pgiven[1].ret = praw[1].addr
          /\ pool.BytesLeft = 0
    /\ TenThenTwenty(2) =>
          /\ pool.BlockSize = 2 * InitBlockSize
          /\ pool.ObsoletedMemblocks = <<pgiven[1].ret>>
          /\ pool.UsedMemblocks = <<>> /\ pool.UnusedMemblocks = <<>>
          /\ Len(praw) = 2 /\ praw[2].size = 2 * InitBlockSize
          /\ pool.CurrentMemblock = praw[2].addr /\ pgiven[2].ret = praw[2].addr
          /\ pgiven[2].ret # pgiven[1].ret
          /\ pool.BytesLeft = 2 * InitBlockSize - PaddedSize(SecondGet)
C16_Witness ==
    /\ TenThenTwenty(2)
    /\ pool.BlockSize = 32 /\ pool.BytesLeft = 8
    /\ Len(praw) = 2 /\ pool.ObsoletedMemblocks = <<praw[1].addr>>

\* C17: after release(pool) every raw block the pool ever got from its backing
\* allocator has been returned to it exactly once, and the pool holds no
\* block: no Current block, and Used, Unused and Obsolete are empty.
C17_ReleaseReturnsEveryBlock ==
    pret.mode = "release" =>
        /\ \A i \in 1..Len(praw) : praw[i].frees = 1
        /\ pool.CurrentMemblock = 0
        /\ pool.UsedMemblocks = <<>>
        /\ pool.UnusedMemblocks = <<>>
        /\ pool.ObsoletedMemblocks = <<>>

\* the blocks the pool holds, one entry per place that holds one
PoolPlaces ==
    ((pool.UnusedMemblocks \o pool.UsedMemblocks) \o pool.ObsoletedMemblocks)
        \o (IF pool.CurrentMemblock # 0 THEN <<pool.CurrentMemblock>> ELSE <<>>)

\* C18: after the first get() or reset() exactly one block is Current, and no
\* block is held twice: not twice in a list and not in two of Current, Used,
\* Unused and Obsolete.
C18_OneCurrentNoBlockTwice ==
    (pc.st = "on" /\ (pc.phase = "cycle" \/ pc.pos > 0)) =>
        /\ pool.CurrentMemblock # 0
        /\ \A i, j \in 1..Len(PoolPlaces) : i # j => PoolPlaces[i] # PoolPlaces[j]
C18_Witness ==
    /\ pc.st = "on" /\ pc.phase = "cycle"
    /\ Len(pool.ObsoletedMemblocks) = 1 /\ Len(pool.UsedMemblocks) = 1
    /\ pool.CurrentMemblock # 0
    /\ pool.UnusedMemblocks = <<>>

(***************************************************************************)
(* default_allocator (light-std allocator.cpp) called from several threads *)
(* dh.MallocInitted and dh.heap are the two statics; dh.inits counts the   *)
(* stbm_heap_init calls; dh.t[i] is thread i inside or between its calls.  *)
(* The heap is the set of its blocks that are allocated.  MallocInitted is *)
(* a plain bool: a thread that reads it late sees what an earlier read of  *)
(* the same thread could have seen, so every outcome of the unsynchronised *)
(* read is an interleaving of DefaultCheck.                                *)
(***************************************************************************)
NumDefaultThreads == 2
MaxDefaultCalls == 2
HeapBlocks == 3
DefaultThreads == 1..NumDefaultThreads

\* stb_malloc: a heap just initialised has nothing allocated; stbm_alloc takes
\* a block that is not allocated (null when there is none); stbm_free gives
\* the block back
stbm_heap_init(heap) == {}
stbm_alloc(heap) ==
    LET free == (1..HeapBlocks) \ heap
    IN  IF free = {} THEN 0 ELSE CHOOSE b \in free : \A c \in free : b <= c
stbm_free(heap, ptr) == heap \ {ptr}

DefaultInit ==
    /\ debug = FALSE
    /\ lay = [st |-> "off"]
    /\ PoolIdle /\ ThreadsIdle /\ FrontIdle /\ TempIdle /\ ContextIdle /\ CyclesIdle /\ HeapIdle /\ LeaksIdle
    /\ dh = [ st |-> "on", MallocInitted |-> FALSE, heap |-> {}, inits |-> 0,
              t |-> [i \in DefaultThreads |->
                        [pc |-> "out", mode |-> "none", oldMemory |-> 0, ret |-> 0,
                         held |-> {}, calls |-> 0]] ]

outsideDefault == <<debug, lay, poolVars, thrVars, frontVars, ta, cx, pc, hp, lk>>

\* a thread calls default_allocator(ALLOCATE, ...) or (FREE, ..., oldMemory, ...)
DefaultEnter(i) ==
    /\ dh.st = "on" /\ dh.t[i].pc = "out" /\ dh.t[i].calls < MaxDefaultCalls
    /\ \/ dh' = [dh EXCEPT !.t[i].pc = "check", !.t[i].mode = "ALLOCATE",
                           !.t[i].oldMemory = 0, !.t[i].calls = @ + 1]
       \/ \E b \in dh.t[i].held :
            dh' = [dh EXCEPT !.t[i].pc = "check", !.t[i].mode = "FREE",
                             !.t[i].oldMemory = b, !.t[i].calls = @ + 1]
    /\ UNCHANGED outsideDefault

\* if (!MallocInitted)
DefaultCheck(i) ==
    /\ dh.st = "on" /\ dh.t[i].pc = "check"
    /\ dh' = [dh EXCEPT !.t[i].pc = IF dh.MallocInitted THEN "switch" ELSE "init"]
    /\ UNCHANGED outsideDefault

\* stbm_heap_init(Heap, sizeof(Heap), &hc)
DefaultHeapInit(i) ==
    /\ dh.st = "on" /\ dh.t[i].pc = "init"
    /\ dh' = [dh EXCEPT !.heap = stbm_heap_init(@), !.inits = @ + 1, !.t[i].pc = "set"]
    /\ UNCHANGED outsideDefault

\* MallocInitted = true
DefaultSetInitted(i) ==
    /\ dh.st = "on" /\ dh.t[i].pc = "set"
    /\ dh' = [dh EXCEPT !.MallocInitted = TRUE, !.t[i].pc = "switch"]
    /\ UNCHANGED outsideDefault

\* switch (mode): stbm_alloc / stbm_free under the heap's allocation mutex
DefaultSwitch(i) ==
    /\ dh.st = "on" /\ dh.t[i].pc = "switch"
    /\ IF dh.t[i].mode = "ALLOCATE"
       THEN LET b == stbm_alloc(dh.heap)
            IN  dh' = [dh EXCEPT !.heap = IF b = 0 THEN @ ELSE @ \cup {b},
                                 !.t[i].ret = b,
                                 !.t[i].held = IF b = 0 THEN @ ELSE @ \cup {b},
                                 !.t[i].pc = "out"]
       ELSE dh' = [dh EXCEPT !.heap = stbm_free(@, dh.t[i].oldMemory),
                             !.t[i].ret = 0,
                             !.t[i].held = @ \ {dh.t[i].oldMemory},
                             !.t[i].pc = "out"]
    /\ UNCHANGED outsideDefault

DefaultNext ==
    \E i \in DefaultThreads :
        \/ DefaultEnter(i) \/ DefaultCheck(i) \/ DefaultHeapInit(i)
        \/ DefaultSetInitted(i) \/ DefaultSwitch(i)

SpecDefault == DefaultInit /\ [][DefaultNext]_vars

\* C19: threads that call the allocator without any lock of their own, their
\* first calls at the same time included, find the heap initialised exactly
\* once, and the blocks they hold are distinct blocks allocated in that heap.
C19_HeapInitialisedOnce ==
    dh.st = "on" =>
        /\ dh.inits <= 1
        /\ \A i \in DefaultThreads : dh.t[i].pc = "switch" => dh.inits = 1
        /\ \A i \in DefaultThreads : dh.t[i].held \subseteq dh.heap
        /\ \A i, j \in DefaultThreads : i # j => dh.t[i].held \cap dh.t[j].held = {}

(***************************************************************************)
(* The implicit context (test_suite tests/thread.cpp, TEST(context))       *)
(* cx.Alloc[t] is Context.Alloc of thread t ("none": not launched yet),    *)
(* cx.base[t] what it was when the thread started, cx.scopes[t] the        *)
(* PUSH_ALLOC scopes the thread is in, innermost last, each with the       *)
(* allocator it saved and the one it installed.                            *)
(***************************************************************************)
NumContextThreads == 2
MaxScopeDepth == 2
MaxContextOps == 5
ContextThreads == 1..NumContextThreads
ContextAllocs == {"Malloc", "differentAlloc", "TempAlloc"}

\* PUSH_ALLOC(newAlloc) {: save Context.Alloc, install newAlloc
PushScope(c, t, newAlloc) ==
    [c EXCEPT !.scopes[t] = Append(@, [old |-> c.Alloc[t], pushed |-> newAlloc]),
              !.Alloc[t] = newAlloc]

\* control leaves the n innermost scopes (n = 1: the end of the block or a
\* return inside it; n > 1: a return out of nested scopes): each restores
\* what it saved, the outermost of them last
LeaveScopes(c, t, n) ==
    LET k == Len(c.scopes[t]) - n
    IN  [c EXCEPT !.scopes[t] = SubSeq(@, 1, k),
                  !.Alloc[t] = c.scopes[t][k + 1].old]

\* a thread that starts with a context of its own making
LaunchThread_fresh_context(c, t, child) ==
    [c EXCEPT !.Alloc[child] = "Malloc", !.base[child] = c.Alloc[t]]

\* t1.init_and_launch(&threadFunction): the new thread starts with a copy of
\* the launching thread's context
LaunchThread(c, t, child) ==
    [c EXCEPT !.Alloc[child] = c.Alloc[t], !.base[child] = c.Alloc[t]]

ContextInit ==
    /\ debug = FALSE
    /\ lay = [st |-> "off"]
    /\ PoolIdle /\ ThreadsIdle /\ FrontIdle /\ TempIdle /\ DefaultIdle /\ CyclesIdle /\ HeapIdle /\ LeaksIdle
    /\ cx = [ st |-> "on",
              Alloc |-> [t \in ContextThreads |-> IF t = 1 THEN "Malloc" ELSE "none"],
              base |-> [t \in ContextThreads |-> IF t = 1 THEN "Malloc" ELSE "none"],
              scopes |-> [t \in ContextThreads |-> <<>>],
              last |-> [op |-> "none"],
              ops |-> 0 ]

outsideContext == <<debug, lay, poolVars, thrVars, frontVars, ta, dh, pc, hp, lk>>
ContextRuns(t) == cx.st = "on" /\ cx.Alloc[t] # "none" /\ cx.ops < MaxContextOps
ContextDid(c, op, t, n) ==
    [c EXCEPT !.last = [op |-> op, t |-> t, n |-> n, before |-> cx.Alloc], !.ops = @ + 1]

ContextPush(t) ==
    /\ ContextRuns(t) /\ Len(cx.scopes[t]) < MaxScopeDepth
    /\ \E a \in ContextAllocs : cx' = ContextDid(PushScope(cx, t, a), "push", t, 1)
    /\ UNCHANGED outsideContext

ContextLeave(t) ==
    /\ ContextRuns(t)
    /\ \E n \in 1..Len(cx.scopes[t]) : cx' = ContextDid(LeaveScopes(cx, t, n), "leave", t, n)
    /\ UNCHANGED outsideContext

ContextLaunch(t) ==
    /\ ContextRuns(t)
    /\ \E child \in ContextThreads :
         /\ cx.Alloc[child] = "none"
         /\ cx' = ContextDid(LaunchThread(cx, t, child), "launch", t, child)
    /\ UNCHANGED outsideContext

ContextNext ==
    \E t \in ContextThreads : ContextPush(t) \/ ContextLeave(t) \/ ContextLaunch(t)

SpecContext == ContextInit /\ [][ContextNext]_vars

MaxHeapCalls == 4
Unsupported == -1
HeapKinds == {"default_allocator", "os_allocator", "windows_allocator"}

\* the allocator function: what it returns and the blocks that are live afterwards
HeapFunction(kind, mode, live, oldMemory) ==
    CASE mode = "ALLOCATE" ->
           LET b == stbm_alloc(live)
           IN  [ret |-> b, live |-> IF b = 0 THEN live ELSE live \cup {b}]
      [] mode = "FREE" -> [ret |-> 0, live |-> live \ {oldMemory}]
      [] mode = "FREE_ALL" ->
           [ret |-> IF kind = "windows_allocator" THEN 0 ELSE Unsupported, live |-> live]

HeapInit ==
    /\ debug \in BOOLEAN
    /\ lay = [st |-> "off"]
    /\ PoolIdle /\ ThreadsIdle /\ FrontIdle /\ TempIdle /\ DefaultIdle /\ ContextIdle
    /\ CyclesIdle /\ LeaksIdle
    /\ \E kind \in HeapKinds :
         hp = [st |-> "on", kind |-> kind, live |-> {}, mode |-> "none", result |-> 0,
               status |-> "ok", calls |-> 0]

outsideHeap == <<debug, lay, poolVars, thrVars, frontVars, ta, dh, cx, pc, lk>>
HeapMayCall == hp.st = "on" /\ hp.status = "ok" /\ hp.calls < MaxHeapCalls
HeapCalled(mode, r, status) ==
    [hp EXCEPT !.mode = mode, !.result = r.ret, !.live = r.live, !.status = status,
               !.calls = @ + 1]

HeapALLOCATE ==
    /\ HeapMayCall
    /\ hp' = HeapCalled("ALLOCATE", HeapFunction(hp.kind, "ALLOCATE", hp.live, 0), "ok")
    /\ UNCHANGED outsideHeap

HeapFREE ==
    /\ HeapMayCall
    /\ \E b \in hp.live :
         hp' = HeapCalled("FREE", HeapFunction(hp.kind, "FREE", hp.live, b), "ok")
    /\ UNCHANGED outsideHeap

\* allocator::free_all: Function(FREE_ALL, ...), assert(result != (void *) -1)
HeapFreeAll ==
    /\ HeapMayCall
    /\ LET r == HeapFunction(hp.kind, "FREE_ALL", hp.live, 0)
       IN  hp' = HeapCalled("FREE_ALL", r,
                            IF debug /\ r.ret = Unsupported THEN "assert" ELSE "ok")
    /\ UNCHANGED outsideHeap

HeapNext == HeapALLOCATE \/ HeapFREE \/ HeapFreeAll

SpecHeap == HeapInit /\ [][HeapNext]_vars

\* C21: a heap allocator, which does not implement FREE_ALL, returns the
\* "unsupported" sentinel (void *) -1 for every FREE_ALL call, never the
\* success value null, and free_all (where assertions are compiled in) stops
\* at its assertion instead of going on as if everything had been freed.
C21_FreeAllUnsupported ==
    (hp.st = "on" /\ hp.mode = "FREE_ALL") =>
        /\ hp.result = Unsupported
        /\ hp.result # 0
        /\ debug => hp.status = "assert"

(***************************************************************************)
(* The fixed-size temporary allocator (light-std temporary_allocator.hpp)  *)
(* ta here is the temporary_storage (Size, Occupied, HighestUsed), the     *)
(* global g_TemporaryAllocatorData, Context.Allocator, the blocks malloc   *)
(* handed out, and the last call with the allocator that served it.  The   *)
(* bytes RESIZE copies are not part of this state.                         *)
(***************************************************************************)
StorageSize == 4
MaxStorageOps == 4
StorageSizes == 1..(StorageSize - 1)

\* Context.Allocator.Data: the storage for the temporary allocator, null for malloc
ContextData(c) == IF c = "temporary_allocator" THEN "storage" ELSE "null"

\* ALLOCATE and RESIZE share one case
StorageTake(d, mode, size) ==
    IF d.Occupied + size > d.Size
    THEN [d EXCEPT !.ContextAllocator =
                       IF @ = "temporary_allocator" \/ ContextData(@) = d.Data
                       THEN "MALLOC" ELSE @,
                   !.Data = "null",
                   !.mallocs = @ + 1,
                   !.servedBy = "MALLOC",
                   !.ret = [by |-> "MALLOC", at |-> d.mallocs + 1]]
    ELSE [d EXCEPT !.Occupied = @ + size,
                   !.HighestUsed = Max(@, d.Occupied + size),
                   !.servedBy = "temporary_allocator",
                   !.ret = [by |-> "temporary_allocator", at |-> d.Occupied]]

\* temporary_storage_init(allocatorSize), with the temporary allocator or
\* malloc as the context's allocator
StorageInit ==
    /\ debug = FALSE
    /\ lay = [st |-> "off"]
    /\ PoolIdle /\ ThreadsIdle /\ FrontIdle /\ DefaultIdle /\ ContextIdle /\ CyclesIdle
    /\ HeapIdle /\ LeaksIdle
    /\ \E c \in {"temporary_allocator", "MALLOC"} :
         ta = [st |-> "storage", Size |-> StorageSize, Occupied |-> 0, HighestUsed |-> 0,
               Data |-> "storage", ContextAllocator |-> c, mallocs |-> 0,
               servedBy |-> "none", ret |-> [by |-> "none", at |-> 0],
               mode |-> "none", size |-> 0,
               before |-> [Occupied |-> 0, Data |-> "storage", ContextAllocator |-> c],
               ops |-> 0]

StorageMayCall == ta.st = "storage" /\ ta.ops < MaxStorageOps
StorageCalled(d, mode, size) ==
    [d EXCEPT !.mode = mode, !.size = size, !.ops = @ + 1,
              !.before = [Occupied |-> ta.Occupied, Data |-> ta.Data,
                          ContextAllocator |-> ta.ContextAllocator]]

StorageALLOCATE ==
    /\ StorageMayCall
    /\ \E size \in StorageSizes :
         ta' = StorageCalled(StorageTake(ta, "ALLOCATE", size), "ALLOCATE", size)
    /\ UNCHANGED outsideTemp

StorageRESIZE ==
    /\ StorageMayCall /\ ta.ret.by # "none"
    /\ \E size \in StorageSizes :
         ta' = StorageCalled(StorageTake(ta, "RESIZE", size), "RESIZE", size)
    /\ UNCHANGED outsideTemp

StorageFREE ==
    /\ StorageMayCall /\ ta.ret.by # "none" /\ ta.mode # "FREE"
    /\ ta' = StorageCalled([ta EXCEPT !.servedBy = "temporary_allocator"], "FREE", 0)
    /\ UNCHANGED outsideTemp

StorageFREE_ALL ==
    /\ StorageMayCall
    /\ ta' = StorageCalled([ta EXCEPT !.Occupied = 0, !.servedBy = "temporary_allocator"],
                           "FREE_ALL", 0)
    /\ UNCHANGED outsideTemp

StorageNext == StorageALLOCATE \/ StorageRESIZE \/ StorageFREE \/ StorageFREE_ALL

SpecStorage == StorageInit /\ [][StorageNext]_vars

\* C22: a request the temporary allocator cannot serve from its storage is not
\* served by another allocator (malloc), and running out of storage changes
\* neither the context's allocator nor the allocator's own state (its storage
\* pointer).
C22_NoFallbackAllocator ==
    (ta.st = "storage" /\ ta.mode \in {"ALLOCATE", "RESIZE"}
        /\ ta.before.Occupied + ta.size > ta.Size) =>
        /\ ta.servedBy # "MALLOC"
        /\ ta.ContextAllocator = ta.before.ContextAllocator
        /\ ta.Data = ta.before.Data

(***************************************************************************)
(* allocator::DEBUG_report_leaks (lstd allocator.cpp)                      *)
(* lk.list are the headers linked in the tracker, DEBUG_Head first, each   *)
(* with ID, RID, Size and MarkedAsLeak.  lk.AllocationCount is the s64     *)
(* counter, kept as [high, low] for high * 2^32 + low; encode_header       *)
(* stores (u32) AllocationCount, its low part, as the ID.                  *)
(***************************************************************************)
MaxLeakOps == 4
MaxLeakSize == 2
MaxHigh == 1
LeakSizes == 1..MaxLeakSize

\* result->ID = (u32) allocator::AllocationCount
IdOf(count) == count.low
\* atomic_inc_64(&allocator::AllocationCount), low staying below 2^32
Incremented(count) == [count EXCEPT !.low = @ + 1]

\* general_allocate as the tracker sees it: a new header at DEBUG_Head
LeakEncoded(d, size, marked, scratch) ==
    [d EXCEPT !.list = <<[ID |-> IdOf(d.AllocationCount), RID |-> 0, Size |-> size,
                          MarkedAsLeak |-> marked, scratch |-> scratch]>> \o @,
              !.AllocationCount = Incremented(@)]

Unmarked(h) == ~h.MarkedAsLeak
\* the second walk: if (!it->MarkedAsLeak && it->ID != leaksID) *p++ = it
RECURSIVE Collected(_, _)
Collected(list, leaksID) ==
    IF list = <<>> THEN <<>>
    ELSE IF ~Head(list).MarkedAsLeak /\ Head(list).ID # leaksID
         THEN <<Head(list)>> \o Collected(Tail(list), leaksID)
         ELSE Collected(Tail(list), leaksID)

\* the second walk with a test on the mark alone
Collected_ignores_id(list, leaksID) == SelectSeq(list, Unmarked)

\* leaks[0 .. leaksCount - 1] as the print loop reads it: what the second walk
\* stored, then slots of the fresh array that nothing was stored to (pointers
\* of whatever the fresh block holds); printed is leaksCount, 0: nothing printed
Uninitialised ==
    [ID |-> DeadPtr, RID |-> DeadPtr, Size |-> DeadPtr, MarkedAsLeak |-> FALSE, scratch |-> FALSE]
LeaksArray(stored, leaksCount) ==
    [i \in 1..leaksCount |-> IF i <= Len(stored) THEN stored[i] ELSE Uninitialised]

DEBUG_report_leaks(d) ==
    LET leaksCount == Len(SelectSeq(d.list, Unmarked))
        d1 == LeakEncoded(d, leaksCount * POINTER_SIZE, d.optionsLeak, TRUE)
        leaksID == Head(d1.list).ID
        stored == Collected(d1.list, leaksID)
        leaks == LeaksArray(stored, leaksCount)
    IN  [d1 EXCEPT !.report = [ran |-> TRUE, before |-> d.list, leaksID |-> leaksID,
                               printed |-> leaksCount,
                               listed |-> leaks],
                   !.status = IF \E i \in 1..leaksCount : leaks[i] = Uninitialised
                              THEN "wild" ELSE "ok"]

LeaksInit ==
    /\ debug = TRUE
    /\ lay = [st |-> "off"]
    /\ PoolIdle /\ ThreadsIdle /\ FrontIdle /\ TempIdle /\ DefaultIdle /\ ContextIdle
    /\ CyclesIdle /\ HeapIdle
    /\ \E optionsLeak \in BOOLEAN :
         lk = [st |-> "on", list |-> <<>>, AllocationCount |-> [high |-> 0, low |-> 0],
               optionsLeak |-> optionsLeak,
               report |-> [ran |-> FALSE, before |-> <<>>, leaksID |-> 0, printed |-> 0,
                           listed |-> <<>>],
               status |-> "ok",
               ops |-> 0]

outsideLeaks == <<debug, lay, poolVars, thrVars, frontVars, ta, dh, cx, pc, hp>>
\* the report runs when the module terminates: nothing is called after it
LeakMayCall == lk.st = "on" /\ ~lk.report.ran /\ lk.ops < MaxLeakOps
LeakDid(d) == [d EXCEPT !.ops = @ + 1]

\* general_allocate(size, ..., options), options with or without LEAK
LeakAllocate ==
    /\ LeakMayCall
    /\ \E size \in LeakSizes, marked \in BOOLEAN :
         lk' = LeakDid(LeakEncoded(lk, size, marked \/ lk.optionsLeak, FALSE))
    /\ UNCHANGED outsideLeaks

\* general_reallocate of an allocation the caller holds: same ID, RID + 1.
\* In place the header stays.  On a move encode_header takes an ID from
\* AllocationCount, and newHeader->MarkedAsLeak = header->MarkedAsLeak runs
\* after fill_memory(block, DEAD_LAND_FILL, oldSize) has overwritten the old
\* header: the bool it reads holds 0xDD, which a build takes as true or, where
\* it tests the low bit of the negation, as false.
LeakMoved(d, i, size, readMark) ==
    [d EXCEPT !.list[i].Size = size, !.list[i].RID = @ + 1,
              !.list[i].MarkedAsLeak = readMark,
              !.AllocationCount = Incremented(@)]
LeakReallocate ==
    /\ LeakMayCall
    /\ \E i \in 1..Len(lk.list), size \in LeakSizes :
         /\ ~lk.list[i].scratch /\ size # lk.list[i].Size
         /\ \/ lk' = LeakDid([lk EXCEPT !.list[i].Size = size, !.list[i].RID = @ + 1])
            \/ \E readMark \in BOOLEAN : lk' = LeakDid(LeakMoved(lk, i, size, readMark))
    /\ UNCHANGED outsideLeaks

\* general_free of an allocation the caller holds
LeakFree ==
    /\ LeakMayCall
    /\ \E i \in 1..Len(lk.list) :
         /\ ~lk.list[i].scratch
         /\ lk' = LeakDid([lk EXCEPT !.list = SubSeq(@, 1, i - 1) \o SubSeq(@, i + 1, Len(@))])
    /\ UNCHANGED outsideLeaks

\* 2^32 - 1 times general_allocate and general_free of the block just
\* allocated: the tracker is as before, AllocationCount is 2^32 - 1 further
LeakChurn ==
    /\ lk.st = "on" /\ ~lk.report.ran /\ lk.AllocationCount.high < MaxHigh
    /\ lk.AllocationCount.low > 0
    /\ lk' = [lk EXCEPT !.AllocationCount.high = @ + 1, !.AllocationCount.low = @ - 1]
    /\ UNCHANGED outsideLeaks

LeakReport ==
    /\ LeakMayCall
    /\ lk' = LeakDid(DEBUG_report_leaks(lk))
    /\ UNCHANGED outsideLeaks

LeaksNext == LeakAllocate \/ LeakReallocate \/ LeakFree \/ LeakChurn \/ LeakReport

SpecLeaks == LeaksInit /\ [][LeaksNext]_vars

\* C23: report_leaks lists exactly the headers that were linked and not
\* leak-marked when it was called, each once and with its Size, ID and RID,
\* lists no leak-marked header and not its own array, prints a count equal to
\* the number of entries it lists, and does not abort.
C23_ReportListsUnmarkedOnce ==
    (lk.st = "on" /\ lk.report.ran) =>
        /\ lk.report.listed = SelectSeq(lk.report.before, Unmarked)
        /\ \A i \in 1..Len(lk.report.listed) :
              /\ lk.report.listed[i] # Uninitialised
              /\ ~lk.report.listed[i].MarkedAsLeak /\ ~lk.report.listed[i].scratch
        /\ lk.report.printed = Len(lk.report.listed)
        /\ lk.status = "ok"

\* C33: a general_reallocate, moved or in place, leaves the allocation's
\* MarkedAsLeak flag as it was: the header with the same ID and the next RID
\* is leak-marked if and only if the allocation was before the call.
C33_ReallocateKeepsLeakMark ==
    [][(lk.st = "on" /\ lk'.st = "on" /\ Len(lk'.list) = Len(lk.list)) =>
           \A i \in 1..Len(lk.list) :
               (lk'.list[i].ID = lk.list[i].ID /\ lk'.list[i].RID = lk.list[i].RID + 1)
                   => lk'.list[i].MarkedAsLeak = lk.list[i].MarkedAsLeak]_vars

(***************************************************************************)
(* Threads in encode_header (lstd allocator.cpp): each general_allocate    *)
(* stamps result->ID = (u32) AllocationCount and then calls                *)
(* atomic_inc_64(&AllocationCount).  lk holds the counter, each thread's   *)
(* position and the IDs stamped so far.                                    *)
(***************************************************************************)
NumIdThreads == 2
MaxIdCalls == 3
IdThreads == 1..NumIdThreads

IdsInit ==
    /\ debug = TRUE
    /\ lay = [st |-> "off"]
    /\ PoolIdle /\ ThreadsIdle /\ FrontIdle /\ TempIdle /\ DefaultIdle /\ ContextIdle
    /\ CyclesIdle /\ HeapIdle
    /\ lk = [ st |-> "ids", AllocationCount |-> 0,
              at |-> [t \in IdThreads |-> [pc |-> "idle", calls |-> 0]],
              given |-> <<>> ]

\* result->ID = (u32) allocator::AllocationCount
IdStamp(t) ==
    /\ lk.st = "ids" /\ lk.at[t].pc = "idle" /\ lk.at[t].calls < MaxIdCalls
    /\ lk' = [lk EXCEPT !.at[t].pc = "stamped",
                        !.given = Append(@, [thread |-> t, ID |-> lk.AllocationCount])]
    /\ UNCHANGED outsideLeaks

\* atomic_inc_64(&allocator::AllocationCount)
IdIncrement(t) ==
    /\ lk.st = "ids" /\ lk.at[t].pc = "stamped"
    /\ lk' = [lk EXCEPT !.AllocationCount = @ + 1,
                        !.at[t].pc = "idle", !.at[t].calls = @ + 1]
    /\ UNCHANGED outsideLeaks

IdsNext == \E t \in IdThreads : IdStamp(t) \/ IdIncrement(t)

SpecIds == IdsInit /\ [][IdsNext]_vars

\* C32: when several threads call general_allocate concurrently, no two
\* allocations receive the same ID under any interleaving.
C32_ConcurrentIdsDistinct ==
    lk.st = "ids" =>
        \A i, j \in 1..Len(lk.given) : i # j => lk.given[i].ID # lk.given[j].ID

(***************************************************************************)
(* The front end over the temporary allocator in a DEBUG_MEMORY build:     *)
(* general_allocate links the header of every region into the tracker,     *)
(* general_free unlinks it, free_all passes FREE_ALL to the allocator.      *)
(* ta is the allocator's data as above, with linked: the regions whose      *)
(* header is in the tracker, DEBUG_Head first.                              *)
(***************************************************************************)
MaxTrackedOps == 4

\* the memory of region h is not the allocator's to hand out as it was: its
\* storage was deleted, or the page's Used was taken back below it
HeaderReleased(d, h) ==
    \/ d.storages[h.page].frees > 0
    \/ \E i \in 1..Len(d.pages) : d.pages[i].Storage = h.page /\ h.off >= d.pages[i].Used
\* DEBUG_add_header / DEBUG_unlink_header / verify_heap follow the links: with
\* a released header in the list they read and write released memory
TrackerWalked(d) ==
    IF \E i \in 1..Len(d.linked) : HeaderReleased(d, d.linked[i])
    THEN [d EXCEPT !.status = IF @ = "ok" THEN "wild" ELSE @]
    ELSE d

TrackedInit ==
    /\ debug = TRUE
    /\ lay = [st |-> "off"]
    /\ PoolIdle /\ ThreadsIdle /\ FrontIdle /\ DefaultIdle /\ ContextIdle /\ CyclesIdle
    /\ HeapIdle /\ LeaksIdle
    /\ ta = [ st |-> "tracked", status |-> "ok", pages |-> <<EmptyPage>>, TotalUsed |-> 0,
              storages |-> <<>>, given |-> <<>>, ret |-> 0, appended |-> 0,
              mode |-> "none", size |-> 0, before |-> <<EmptyPage>>, ops |-> 0,
              linked |-> <<>> ]

TrackedMayCall == ta.st = "tracked" /\ ta.status = "ok" /\ ta.ops < MaxTrackedOps

\* general_allocate: ALLOCATE, encode_header, DEBUG_add_header, verify_heap
TrackedLinked(d) ==
    IF d.status = "ok" THEN TrackerWalked([d EXCEPT !.linked = <<d.ret>> \o @]) ELSE d
TrackedAllocate ==
    /\ TrackedMayCall
    /\ \E size \in TempSizes :
         \E target \in TempTargets(TempEnsureBase(ta, size), size) :
            ta' = TempCalled(TrackedLinked(TempALLOCATE(TempEnsureBase(ta, size), size, target)),
                             "ALLOCATE", size)
    /\ UNCHANGED outsideTemp

\* general_free of an allocation made since the last free_all:
\* DEBUG_unlink_header, the dead fill, FREE, verify_heap
TrackedFree ==
    /\ TrackedMayCall
    /\ \E i \in 1..Len(ta.linked) :
         /\ \E g \in 1..Len(ta.given) : ta.given[g] = ta.linked[i]
         /\ ta' = TempCalled(
                     TrackerWalked([TempEnsureBase(ta, 0) EXCEPT
                                       !.linked = SubSeq(@, 1, i - 1) \o SubSeq(@, i + 1, Len(@)),
                                       !.ret = 0, !.appended = 0]),
                     "FREE", 0)
    /\ UNCHANGED outsideTemp

\* allocator::free_all: Function(FREE_ALL, ...) and the assert on the result
TrackedFreeAll ==
    /\ TrackedMayCall
    /\ ta' = TempCalled(TempFREE_ALL(TempEnsureBase(ta, 0)), "FREE_ALL", 0)
    /\ UNCHANGED outsideTemp

TrackedNext == TrackedAllocate \/ TrackedFree \/ TrackedFreeAll

SpecTracked == TrackedInit /\ [][TrackedNext]_vars

\* C34: after free_all on the temporary allocator no header that lies in
\* memory this FREE_ALL released or recycled is linked in the tracker.
C34_FreeAllLeavesNoReleasedHeaderLinked ==
    (ta.st = "tracked" /\ ta.mode = "FREE_ALL") =>
        \A i \in 1..Len(ta.linked) : ~HeaderReleased(ta, ta.linked[i])

====
